---- MODULE Spec2Model ----
(***************************************************************************)
(* Model of github.com/advdv/bhttp: the buffered response writer           *)
(* (response_buffer.go), the error taxonomy and the ToStd serve adapter    *)
(* (handle.go).  One request is served at a time: the host runtime calls   *)
(* the http.Handler returned by ToStd, the handler chain performs calls on *)
(* the ResponseBuffer, and returns nil or an error.  A second             *)
(* specification, SpecReplay, runs whole handler programs on a             *)
(* ResponseBuffer to compare the responses they give.                      *)
(*                                                                         *)
(* Texts are sequences of tokens; a body byte written by a handler is a    *)
(* one-character token, a text produced by the framework is a sequence of  *)
(* its parts (status text, ": ", cause message, newline).                  *)
(***************************************************************************)
EXTENDS Integers, Sequences, FiniteSets, TLC

\* ---------------------------------------------------------------- bounds
MaxOps   == 4      \* calls one handler chain makes on its ResponseBuffer
MaxLimit == 2      \* largest buffer cap explored (caps are -1 .. MaxLimit)
MaxChain == 2      \* longest error chain a handler returns
MaxProg  == 3      \* longest handler program replayed on a ResponseBuffer
MaxCalls == 4      \* calls made on one ServeMux
MaxMw    == 3      \* longest middleware stack
MaxSegs  == 4      \* most segments in a pattern string given to the Reverser
MaxVals  == 2      \* most values given to Reverse
MaxRounds == 3     \* requests served from one pool
MaxDepth == 4      \* longest error chain given to CodeOf

\* ---------------------------------------------------------------- values
StatusOK                  == 200
StatusInternalServerError == 500
StatusGatewayTimeout      == 504
CodeUnknown               == 0
CodeBadRequest            == 400
CodeNotFound              == 404

\* status codes a handler passes to WriteHeader
HandlerStatus == {201, 202}
\* byte slices a handler passes to Write
WriteInputs == {<< >>, <<"a">>, <<"b", "c">>}
\* headers a handler sets: key -> value
HandlerHeader == [k \in {"Is-Bar", "Content-Type"} |->
                    IF k = "Is-Bar" THEN "rab" ELSE "application/json"]
\* header maps the host writer may already carry when ToStd is entered
EmptyHeader == [k \in {} |-> ""]
PresetHeaders == {EmptyHeader, [k \in {"X-Pre"} |-> "pre"]}
\* the same, and a map holding a key that an outer layer assigned as it is
RawPresetHeaders == PresetHeaders \cup {[k \in {"x-raw"} |-> "pre"]}

ErrBufferFull == "buffer is full"
PanicFlushed  == <<"bhttp: response buffer is ", "already flushed">>
NoPanic       == << >>
WriteFail     == "write fail"
FlushFail     == "flush fail"

\* ---------------------------------------------------------------- http.Header
\* textproto.CanonicalMIMEHeaderKey for the keys in use: "x-raw" is the one
\* key that is not in canonical form
CanonicalMIMEHeaderKey(k) == IF k = "x-raw" THEN "X-Raw" ELSE k

\* http.Header.Set(k, v): stores under the canonical form of k
HeaderSet(h, k, v) ==
    [x \in (DOMAIN h) \cup {CanonicalMIMEHeaderKey(k)} |->
        IF x = CanonicalMIMEHeaderKey(k) THEN v ELSE h[x]]

\* h[k] = []string{v}: the map assignment, which stores under k as it is
HeaderAssign(h, k, v) == [x \in (DOMAIN h) \cup {k} |-> IF x = k THEN v ELSE h[x]]

\* for k := range h { h.Del(k) }: each Del deletes the canonical form of k
HeaderDelEach(h) ==
    [x \in (DOMAIN h) \ {CanonicalMIMEHeaderKey(k) : k \in DOMAIN h} |-> h[x]]

\* ---------------------------------------------------------------- host writer
\* The http.ResponseWriter of the host runtime (net/http): the first
\* WriteHeader fixes the status and snapshots the header map, a later one is
\* superfluous and ignored; a Write before any WriteHeader implies
\* WriteHeader(200).  numWriteHeader and numWrite count the calls made on it.
NewHostWriter(h) ==
    [header |-> h, wroteHeader |-> FALSE, status |-> 0, sentHeader |-> EmptyHeader,
     body |-> << >>, numWriteHeader |-> 0, numWrite |-> 0, numFlush |-> 0]

HostSendHeader(r, code) ==
    IF r.wroteHeader THEN r
    ELSE [r EXCEPT !.wroteHeader = TRUE, !.status = code, !.sentHeader = r.header]

HostWriteHeader(r, code) ==
    [HostSendHeader(r, code) EXCEPT !.numWriteHeader = r.numWriteHeader + 1]

\* Write(p) on the host writer; ok = FALSE is a failing writer, which takes
\* no byte and returns an error.
HostWrite(r, p, ok) ==
    IF ok
    THEN [HostSendHeader(r, StatusOK) EXCEPT !.body = r.body \o p,
                                             !.numWrite = r.numWrite + 1]
    ELSE [r EXCEPT !.numWrite = r.numWrite + 1]

HostFlush(r) == [HostSendHeader(r, StatusOK) EXCEPT !.numFlush = r.numFlush + 1]

\* ---------------------------------------------------------------- ResponseBuffer
NilHeader == [isNil |-> TRUE, h |-> EmptyHeader]

\* new(ResponseBuffer): the zero value the pool creates
ZeroResponseBuffer ==
    [bound |-> FALSE, buf |-> << >>, limit |-> 0, status |-> 0,
     headerFlushed |-> FALSE, bodyFlushed |-> FALSE, unflushableHeader |-> NilHeader]

\* A pair s = [w, resp] is a ResponseBuffer w bound to the host writer resp.
newBufferResponse(w, limit) ==
    [w EXCEPT !.bound = TRUE, !.limit = limit, !.status = StatusOK]

\* Free that leaves the side header map in place
FreeKeepsSideHeader(w) ==
    [w EXCEPT !.buf = << >>, !.bound = FALSE, !.limit = 0, !.status = 0,
              !.headerFlushed = FALSE, !.bodyFlushed = FALSE]

Free(w) ==
    [w EXCEPT !.buf = << >>, !.bound = FALSE, !.limit = 0, !.status = 0,
              !.headerFlushed = FALSE, !.bodyFlushed = FALSE,
              !.unflushableHeader = NilHeader]

markHeaderAsFlushed(w) == [w EXCEPT !.headerFlushed = TRUE]

\* WriteHeader that records the code also when the header is latched
WriteHeaderOverwrites(s, statusCode) ==
    [s EXCEPT !.w = markHeaderAsFlushed([s.w EXCEPT !.status = statusCode])]

\* WriteHeader that also calls WriteHeader on the host writer
WriteHeaderForwards(s, statusCode) ==
    IF s.w.headerFlushed THEN s
    ELSE [s EXCEPT !.w = markHeaderAsFlushed([s.w EXCEPT !.status = statusCode]),
                   !.resp = HostWriteHeader(s.resp, statusCode)]

WriteHeader(s, statusCode) ==
    IF s.w.headerFlushed THEN s
    ELSE [s EXCEPT !.w = markHeaderAsFlushed([s.w EXCEPT !.status = statusCode])]

\* Header() that returns the host writer's map also when the header is latched
HeaderSetOnHostMap(s, k, v) ==
    [s EXCEPT !.resp.header = HeaderSet(s.resp.header, k, v)]

\* Header() followed by Set(k, v) on the map it returns
HeaderSetOn(s, k, v) ==
    IF s.w.headerFlushed
    THEN [s EXCEPT !.w.unflushableHeader =
                      [isNil |-> FALSE, h |-> HeaderSet(s.w.unflushableHeader.h, k, v)]]
    ELSE [s EXCEPT !.resp.header = HeaderSet(s.resp.header, k, v)]

\* Set(k, v) on the map a call of Header() returned while the header was not
\* latched: that map is w.resp.Header() itself, not a copy, and the handler
\* can keep it (h := w.Header() as its first statement).
HeldHeaderSet(s, k, v) ==
    [s EXCEPT !.resp.header = HeaderSet(s.resp.header, k, v)]

\* Reset that leaves the host writer's header map alone
ResetKeepsHeader(s) ==
    IF s.w.bodyFlushed
    THEN [s |-> s, panic |-> PanicFlushed]
    ELSE [s |-> [s EXCEPT !.w.headerFlushed = FALSE,
                          !.w.status = StatusOK,
                          !.w.buf = << >>],
          panic |-> NoPanic]

\* Reset that leaves the recorded status alone
ResetKeepsStatus(s) ==
    IF s.w.bodyFlushed
    THEN [s |-> s, panic |-> PanicFlushed]
    ELSE [s |-> [s EXCEPT !.resp.header = HeaderDelEach(s.resp.header),
                          !.w.headerFlushed = FALSE,
                          !.w.buf = << >>],
          panic |-> NoPanic]

\* Reset that leaves the buffered bytes alone
ResetKeepsBuf(s) ==
    IF s.w.bodyFlushed
    THEN [s |-> s, panic |-> PanicFlushed]
    ELSE [s |-> [s EXCEPT !.resp.header = HeaderDelEach(s.resp.header),
                          !.w.headerFlushed = FALSE,
                          !.w.status = StatusOK],
          panic |-> NoPanic]

Reset(s) ==
    IF s.w.bodyFlushed
    THEN [s |-> s, panic |-> PanicFlushed]
    ELSE [s |-> [s EXCEPT !.resp.header = HeaderDelEach(s.resp.header),
                          !.w.headerFlushed = FALSE,
                          !.w.status = StatusOK,
                          !.w.buf = << >>],
          panic |-> NoPanic]

\* Write whose cap check is off by one
WriteOffByOne(s, buf) ==
    IF s.w.limit >= 0 /\ Len(s.w.buf) + Len(buf) >= s.w.limit
    THEN [s |-> s, n |-> 0, err |-> ErrBufferFull]
    ELSE [s |-> [s EXCEPT !.w = [markHeaderAsFlushed(s.w) EXCEPT !.buf = s.w.buf \o buf]],
          n |-> Len(buf), err |-> ""]

\* Write whose cap check looks at the new bytes only
WriteChecksArgOnly(s, buf) ==
    IF s.w.limit >= 0 /\ Len(buf) > s.w.limit
    THEN [s |-> s, n |-> 0, err |-> ErrBufferFull]
    ELSE [s |-> [s EXCEPT !.w = [markHeaderAsFlushed(s.w) EXCEPT !.buf = s.w.buf \o buf]],
          n |-> Len(buf), err |-> ""]

\* Write whose cap check counts the bytes already delivered to the host writer
WriteCountsSent(s, buf) ==
    IF s.w.limit >= 0 /\ Len(s.resp.body) + Len(s.w.buf) + Len(buf) > s.w.limit
    THEN [s |-> s, n |-> 0, err |-> ErrBufferFull]
    ELSE [s |-> [s EXCEPT !.w = [markHeaderAsFlushed(s.w) EXCEPT !.buf = s.w.buf \o buf]],
          n |-> Len(buf), err |-> ""]

\* Write that latches the header before it checks the cap
WriteLatchesFirst(s, buf) ==
    IF s.w.limit >= 0 /\ Len(s.w.buf) + Len(buf) > s.w.limit
    THEN [s |-> [s EXCEPT !.w = markHeaderAsFlushed(s.w)], n |-> 0, err |-> ErrBufferFull]
    ELSE [s |-> [s EXCEPT !.w = [markHeaderAsFlushed(s.w) EXCEPT !.buf = s.w.buf \o buf]],
          n |-> Len(buf), err |-> ""]

Write(s, buf) ==
    IF s.w.limit >= 0 /\ Len(s.w.buf) + Len(buf) > s.w.limit
    THEN [s |-> s, n |-> 0, err |-> ErrBufferFull]
    ELSE [s |-> [s EXCEPT !.w = [markHeaderAsFlushed(s.w) EXCEPT !.buf = s.w.buf \o buf]],
          n |-> Len(buf), err |-> ""]

\* FlushBuffer that records the body as flushed only when it wrote bytes
FlushBufferMarksOnBytes(s, hostOK) ==
    LET w1 == markHeaderAsFlushed(s.w)
        r1 == HostWriteHeader(s.resp, s.w.status)
    IN  IF Len(s.w.buf) = 0
        THEN [s |-> [w |-> w1, resp |-> r1], err |-> ""]
        ELSE IF hostOK
        THEN [s |-> [w |-> [w1 EXCEPT !.buf = << >>, !.bodyFlushed = TRUE],
                     resp |-> HostWrite(r1, s.w.buf, TRUE)],
              err |-> ""]
        ELSE [s |-> [w |-> w1, resp |-> HostWrite(r1, s.w.buf, FALSE)],
              err |-> WriteFail]

\* FlushBuffer that leaves the bytes it delivered in the buffer
FlushBufferKeepsBuf(s, hostOK) ==
    LET w1 == markHeaderAsFlushed(s.w)
        r1 == HostWriteHeader(s.resp, s.w.status)
    IN  IF Len(s.w.buf) = 0
        THEN [s |-> [w |-> [w1 EXCEPT !.bodyFlushed = TRUE], resp |-> r1], err |-> ""]
        ELSE IF hostOK
        THEN [s |-> [w |-> [w1 EXCEPT !.bodyFlushed = TRUE],
                     resp |-> HostWrite(r1, s.w.buf, TRUE)],
              err |-> ""]
        ELSE [s |-> [w |-> w1, resp |-> HostWrite(r1, s.w.buf, FALSE)],
              err |-> WriteFail]

\* FlushBuffer that marks the body as flushed before it looks at the error
FlushBufferMarksFirst(s, hostOK) ==
    LET w1 == markHeaderAsFlushed(s.w)
        r1 == HostWriteHeader(s.resp, s.w.status)
    IN  IF Len(s.w.buf) = 0
        THEN [s |-> [w |-> [w1 EXCEPT !.bodyFlushed = TRUE], resp |-> r1], err |-> ""]
        ELSE IF hostOK
        THEN [s |-> [w |-> [w1 EXCEPT !.buf = << >>, !.bodyFlushed = TRUE],
                     resp |-> HostWrite(r1, s.w.buf, TRUE)],
              err |-> ""]
        ELSE [s |-> [w |-> [w1 EXCEPT !.bodyFlushed = TRUE],
                     resp |-> HostWrite(r1, s.w.buf, FALSE)],
              err |-> WriteFail]

\* bytes.Buffer.WriteTo: an empty buffer makes no Write call; a failing
\* writer leaves the buffer as it is.
FlushBuffer(s, hostOK) ==
    LET w1 == markHeaderAsFlushed(s.w)
        r1 == HostWriteHeader(s.resp, s.w.status)
    IN  IF Len(s.w.buf) = 0
        THEN [s |-> [w |-> [w1 EXCEPT !.bodyFlushed = TRUE], resp |-> r1], err |-> ""]
        ELSE IF hostOK
        THEN [s |-> [w |-> [w1 EXCEPT !.buf = << >>, !.bodyFlushed = TRUE],
                     resp |-> HostWrite(r1, s.w.buf, TRUE)],
              err |-> ""]
        ELSE [s |-> [w |-> w1, resp |-> HostWrite(r1, s.w.buf, FALSE)],
              err |-> WriteFail]

\* FlushError that asks the host writer to flush whatever FlushBuffer returned
FlushErrorFlushesAnyway(s, hostOK, flushOK) ==
    LET f == FlushBuffer(s, hostOK)
    IN  IF flushOK THEN [s |-> [f.s EXCEPT !.resp = HostFlush(f.s.resp)], err |-> f.err]
        ELSE [s |-> f.s, err |-> IF f.err # "" THEN f.err ELSE FlushFail]

\* flushOK = FALSE: the host writer's Flush returns an error
FlushError(s, hostOK, flushOK) ==
    LET f == FlushBuffer(s, hostOK)
    IN  IF f.err # "" THEN f
        ELSE IF flushOK THEN [s |-> [f.s EXCEPT !.resp = HostFlush(f.s.resp)], err |-> ""]
        ELSE [s |-> f.s, err |-> FlushFail]

\* ---------------------------------------------------------------- errors
\* An error value is its chain, outermost first: "wrap" is a wrapper with an
\* Unwrap method (fmt.Errorf with %w), "Error" is a framework *Error (which
\* has no Unwrap method; the nodes after it are its cause), "plain" ends the
\* chain.
Codes == {CodeUnknown, CodeBadRequest}
PlainNode == [kind |-> "plain", code |-> 0, msg |-> "boom"]
WrapNode  == [kind |-> "wrap", code |-> 0, msg |-> "ctx"]
ErrorNode(c) == [kind |-> "Error", code |-> c, msg |-> ""]
InnerNodes == {WrapNode} \cup {ErrorNode(c) : c \in Codes}

RECURSIVE ChainsOf(_)
ChainsOf(n) ==
    IF n = 1 THEN {<<PlainNode>>}
    ELSE {<<x>> \o c : x \in InnerNodes, c \in ChainsOf(n - 1)}

\* context.DeadlineExceeded, returned as it is or wrapped
DeadlineNode == [kind |-> "plain", code |-> 0, msg |-> "context deadline exceeded"]
DeadlineErrs == {<<DeadlineNode>>, <<WrapNode, DeadlineNode>>}

Errs == UNION {ChainsOf(n) : n \in 1..MaxChain} \cup DeadlineErrs

\* http.StatusText for the codes in use
StatusText(code) ==
    CASE code = 400 -> "Bad Request"
      [] code = 500 -> "Internal Server Error"
      [] code = 504 -> "Gateway Timeout"
      [] OTHER -> ""

\* errors.As(err, &connectErr): the first *Error reached through Unwrap
RECURSIVE asError(_)
asError(err) ==
    IF err = << >> THEN [ok |-> FALSE, code |-> CodeUnknown, at |-> 0]
    ELSE IF Head(err).kind = "Error" THEN [ok |-> TRUE, code |-> Head(err).code, at |-> 1]
    ELSE IF Head(err).kind = "wrap"
         THEN LET r == asError(Tail(err))
              IN  [r EXCEPT !.at = IF r.ok THEN r.at + 1 ELSE 0]
    ELSE [ok |-> FALSE, code |-> CodeUnknown, at |-> 0]

\* CodeOf that looks at the error itself only
CodeOfNoUnwrap(err) ==
    IF err # << >> /\ Head(err).kind = "Error" THEN Head(err).code ELSE CodeUnknown

CodeOf(err) == LET r == asError(err) IN IF r.ok THEN r.code ELSE CodeUnknown

\* err.Error() as a text
RECURSIVE ErrorText(_)
ErrorText(err) ==
    IF err = << >> THEN << >>
    ELSE LET x == Head(err)
         IN  IF x.kind = "plain" THEN <<x.msg>>
             ELSE IF x.kind = "wrap" THEN <<x.msg, ": ">> \o ErrorText(Tail(err))
             ELSE <<(IF StatusText(x.code) = "" THEN "Unknown" ELSE StatusText(x.code)), ": ">>
                  \o ErrorText(Tail(err))

\* ---------------------------------------------------------------- http.Error
\* net/http.Error(w, text, code), go 1.22: two header sets, WriteHeader,
\* Fprintln of the text (a Write whose error is dropped).
HttpError(r, text, code, hostOK) ==
    LET r1 == [r EXCEPT !.header =
                 HeaderSet(HeaderSet(r.header, "Content-Type", "text/plain; charset=utf-8"),
                           "X-Content-Type-Options", "nosniff")]
        r2 == HostWriteHeader(r1, code)
    IN  HostWrite(r2, text \o <<"\n">>, hostOK)

\* ---------------------------------------------------------------- ToStd
\* ToStd that logs only errors without a framework *Error in their chain
ToStdTailLogsPlainOnly(s, err, hostOK) ==
    IF err # << >>
    THEN LET rs == Reset(s)
             lg == IF asError(err).ok THEN << >> ELSE <<err>>
         IN  IF rs.panic # NoPanic
             THEN [s |-> s, unhandled |-> lg, implicit |-> << >>, flushCalls |-> 0,
                   panic |-> rs.panic]
             ELSE LET r1 == HttpError(rs.s.resp, <<StatusText(StatusInternalServerError)>>,
                                      StatusInternalServerError, hostOK)
                      f  == FlushBuffer([rs.s EXCEPT !.resp = r1], hostOK)
                  IN  [s |-> f.s, unhandled |-> lg,
                       implicit |-> IF f.err # "" THEN <<f.err>> ELSE << >>,
                       flushCalls |-> 1, panic |-> NoPanic]
    ELSE LET f == FlushBuffer(s, hostOK)
         IN  [s |-> f.s, unhandled |-> << >>,
              implicit |-> IF f.err # "" THEN <<f.err>> ELSE << >>,
              flushCalls |-> 1, panic |-> NoPanic]

\* What the handler returned by ToStd does once h.ServeBareBHTTP has returned
\* err (<< >> is nil): the result has the pair s, the log calls made, and
\* panic # "" when Reset panicked (the deferred Free still runs).
\* ToStd that writes its error response into the buffer: http.Error(bresp, ...)
ToStdTailBuffersError(s, err, hostOK) ==
    IF err # << >>
    THEN LET rs == Reset(s)
         IN  IF rs.panic # NoPanic
             THEN [s |-> s, unhandled |-> <<err>>, implicit |-> << >>, flushCalls |-> 0,
                   panic |-> rs.panic]
             ELSE LET s1 == HeaderSetOn(HeaderSetOn(rs.s, "Content-Type",
                                                     "text/plain; charset=utf-8"),
                                        "X-Content-Type-Options", "nosniff")
                      s2 == WriteHeader(s1, StatusInternalServerError)
                      s3 == Write(s2, <<StatusText(StatusInternalServerError), "\n">>).s
                      f  == FlushBuffer(s3, hostOK)
                  IN  [s |-> f.s, unhandled |-> <<err>>,
                       implicit |-> IF f.err # "" THEN <<f.err>> ELSE << >>,
                       flushCalls |-> 1, panic |-> NoPanic]
    ELSE LET f == FlushBuffer(s, hostOK)
         IN  [s |-> f.s, unhandled |-> << >>,
              implicit |-> IF f.err # "" THEN <<f.err>> ELSE << >>,
              flushCalls |-> 1, panic |-> NoPanic]

ToStdTail(s, err, hostOK) ==
    IF err # << >>
    THEN LET rs == Reset(s)
         IN  IF rs.panic # NoPanic
             THEN [s |-> s, unhandled |-> <<err>>, implicit |-> << >>, flushCalls |-> 0,
                   panic |-> rs.panic]
             ELSE LET r1 == HttpError(rs.s.resp, <<StatusText(StatusInternalServerError)>>,
                                      StatusInternalServerError, hostOK)
                      f  == FlushBuffer([rs.s EXCEPT !.resp = r1], hostOK)
                  IN  [s |-> f.s, unhandled |-> <<err>>,
                       implicit |-> IF f.err # "" THEN <<f.err>> ELSE << >>,
                       flushCalls |-> 1, panic |-> NoPanic]
    ELSE LET f == FlushBuffer(s, hostOK)
         IN  [s |-> f.s, unhandled |-> << >>,
              implicit |-> IF f.err # "" THEN <<f.err>> ELSE << >>,
              flushCalls |-> 1, panic |-> NoPanic]

\* ---------------------------------------------------------------- programs
\* A composing call of a handler: Header().Set, WriteHeader or Write.
ComposeOps ==
    {[op |-> "Header", arg |-> <<k>>] : k \in DOMAIN HandlerHeader}
    \cup {[op |-> "WriteHeader", arg |-> <<c>>] : c \in HandlerStatus}
    \cup {[op |-> "Write", arg |-> p] : p \in WriteInputs}

Apply(s, o) ==
    CASE o.op = "Header"      -> HeaderSetOn(s, o.arg[1], HandlerHeader[o.arg[1]])
      [] o.op = "WriteHeader" -> WriteHeader(s, o.arg[1])
      [] o.op = "Write"       -> Write(s, o.arg).s

RECURSIVE Run(_, _)
Run(prog, s) == IF prog = << >> THEN s ELSE Run(Tail(prog), Apply(s, Head(prog)))

\* The same calls made directly on the host's standard writer: its header
\* map stays writable after the header was sent, which changes nothing sent.
StdApply(r, o) ==
    CASE o.op = "Header"      -> [r EXCEPT !.header =
                                     HeaderSet(r.header, o.arg[1], HandlerHeader[o.arg[1]])]
      [] o.op = "WriteHeader" -> HostWriteHeader(r, o.arg[1])
      [] o.op = "Write"       -> HostWrite(r, o.arg, TRUE)

RECURSIVE StdRun(_, _)
StdRun(prog, r) == IF prog = << >> THEN r ELSE StdRun(Tail(prog), StdApply(r, Head(prog)))

\* the host finishing a request whose handler returned: a header not sent
\* yet is sent with status 200
StdFinish(r) == HostSendHeader(r, StatusOK)

RECURSIVE ProgsOf(_)
ProgsOf(n) ==
    IF n = 0 THEN {<< >>} ELSE {<<o>> \o q : o \in ComposeOps, q \in ProgsOf(n - 1)}

\* the pairs of programs replayed, one before and one after a Reset: any two
\* of at most MaxProg calls together, and every program paired with itself
ProgPairs ==
    UNION {ProgsOf(i) \X ProgsOf(j) : <<i, j>> \in
             {x \in (0..MaxProg) \X (0..MaxProg) : x[1] + x[2] <= MaxProg}}
    \cup UNION {{<<q, q>> : q \in ProgsOf(i)} : i \in 0..MaxProg}

\* a ResponseBuffer just acquired for a host writer carrying header map h
Fresh(h, limit) ==
    [w |-> newBufferResponse(ZeroResponseBuffer, limit), resp |-> NewHostWriter(h)]

\* what the client gets from a host writer
Wire(r) == [status |-> r.status, header |-> r.sentHeader, body |-> r.body]

\* ---------------------------------------------------------------- patterns
\* A string is the sequence of its tokens: a method, " ", "/", a literal
\* segment, a placeholder "{name}", the anchor "{$}"; a URL value is a token.
Methods     == {"GET"}
Literals    == {"users", "posts", "api"}
WildTokens  == {"{userId}", "{postId}"}
BadWildTokens == {"{}"}
EndToken    == "{$}"
WildName(tok) == IF tok = "{userId}" THEN "userId" ELSE "postId"
\* a placeholder name wrapped in braces
Braced(name) == IF name = "userId" THEN "{userId}" ELSE "{postId}"
Values      == {"42", "101"}

\* the path of a pattern string: the string without its method
PathOf(str) == IF Len(str) >= 2 /\ str[2] = " " THEN SubSeq(str, 3, Len(str)) ELSE str

NoErr == << >>
ParseOK(method, segs) == [method |-> method, segs |-> segs, err |-> NoErr]
ParseErr(msg) == [method |-> "", segs |-> << >>, err |-> <<msg>>]
Seg(kind, s) == [kind |-> kind, s |-> s]

\* the segment of a token: "lit" literal text, "wild" a placeholder with its
\* name, "end" the anchor {$}, "dir" the empty segment after a trailing slash
SegOf(tok) ==
    IF tok = EndToken THEN Seg("end", "")
    ELSE IF tok \in WildTokens THEN Seg("wild", WildName(tok))
    ELSE IF tok = "" THEN Seg("dir", "")
    ELSE Seg("lit", tok)

\* The path is "/" segment "/" segment ...; toks are its segment tokens, a
\* trailing slash giving a last empty one.
ParsePath(method, path) ==
    LET n    == (Len(path) + 1) \div 2
        toks == [i \in 1..n |-> IF 2 * i <= Len(path) THEN path[2 * i] ELSE ""]
    IN  IF \E i \in 1..n : path[2 * i - 1] # "/" THEN ParseErr("invalid pattern")
        ELSE IF \E i \in 1..n : toks[i] \in BadWildTokens THEN ParseErr("bad wildcard name")
        ELSE IF \E i \in 1..n : toks[i] \notin Literals \cup WildTokens \cup {EndToken}
                                 /\ ~(i = n /\ toks[i] = "")
        THEN ParseErr("invalid pattern")
        ELSE IF \E i, j \in 1..n : i < j /\ toks[i] \in WildTokens /\ toks[i] = toks[j]
        THEN ParseErr("duplicate wildcard name")
        ELSE IF \E i \in 1..(n - 1) : toks[i] = EndToken THEN ParseErr("{$} not at end")
        ELSE ParseOK(method, [i \in 1..n |-> SegOf(toks[i])])

\* httppattern.ParsePattern
ParsePattern(str) ==
    IF str = << >> THEN ParseErr("empty pattern")
    ELSE IF Len(str) >= 2 /\ str[2] = " "
    THEN IF str[1] \notin Methods THEN ParseErr("invalid method")
         ELSE IF Len(str) = 2 THEN ParseErr("invalid pattern")
         ELSE ParsePath(str[1], SubSeq(str, 3, Len(str)))
    ELSE ParsePath("", str)

\* httppattern.Build: the path of a pattern with its placeholders filled in
RECURSIVE BuildSegments(_, _)
BuildSegments(segs, vals) ==
    IF segs = << >> THEN [res |-> << >>, err |-> NoErr]
    ELSE LET sg == Head(segs)
         IN  IF sg.kind = "wild" /\ vals = << >>
             THEN [res |-> << >>, err |-> <<"not enough values">>]
             ELSE LET more == BuildSegments(Tail(segs),
                                            IF sg.kind = "wild" THEN Tail(vals) ELSE vals)
                      out  == CASE sg.kind = "lit"  -> <<"/", sg.s>>
                                [] sg.kind = "wild" -> <<"/", Head(vals)>>
                                [] OTHER            -> <<"/">>
                  IN  IF more.err # NoErr THEN more
                      ELSE [res |-> out \o more.res, err |-> NoErr]

Build(pat, vals) == BuildSegments(pat.segs, vals)

\* ---------------------------------------------------------------- Reverser
\* pats is the map of a Reverser: name -> parsed pattern
NewReverser == [n \in {} |-> ParseOK("", << >>)]

\* Reverse that fills in no value
ReverseDropsValues(pats, name, vals) ==
    IF name \notin DOMAIN pats
    THEN [res |-> << >>, err |-> <<"no pattern named: ", name>>]
    ELSE LET b == Build(pats[name], << >>)
         IN  IF b.err # NoErr
             THEN [res |-> << >>, err |-> <<"failed to build: ">> \o b.err]
             ELSE [res |-> b.res, err |-> NoErr]

\* Reverse that returns what was built so far together with the error
ReverseKeepsPartial(pats, name, vals) ==
    IF name \notin DOMAIN pats
    THEN [res |-> <<"/">>, err |-> <<"no pattern named: ", name>>]
    ELSE LET b == Build(pats[name], vals)
         IN  IF b.err # NoErr
             THEN [res |-> <<"/">>, err |-> <<"failed to build: ">> \o b.err]
             ELSE [res |-> b.res, err |-> NoErr]

\* Reverse that puts the method of the pattern in front of the path
ReverseKeepsMethod(pats, name, vals) ==
    IF name \notin DOMAIN pats
    THEN [res |-> << >>, err |-> <<"no pattern named: ", name>>]
    ELSE LET b == Build(pats[name], vals)
         IN  IF b.err # NoErr
             THEN [res |-> << >>, err |-> <<"failed to build: ">> \o b.err]
             ELSE [res |-> (IF pats[name].method = "" THEN << >>
                            ELSE <<pats[name].method, " ">>) \o b.res,
                   err |-> NoErr]

Reverse(pats, name, vals) ==
    IF name \notin DOMAIN pats
    THEN [res |-> << >>, err |-> <<"no pattern named: ", name>>]
    ELSE LET b == Build(pats[name], vals)
         IN  IF b.err # NoErr
             THEN [res |-> << >>, err |-> <<"failed to build: ">> \o b.err]
             ELSE [res |-> b.res, err |-> NoErr]

\* NamedPattern that does not look for the name first
NamedPatternOverwrites(pats, name, str) ==
    LET pat == ParsePattern(str)
    IN  IF pat.err # NoErr
        THEN [pats |-> pats, str |-> str, err |-> <<"failed to parse pattern: ">> \o pat.err]
        ELSE [pats |-> [n \in (DOMAIN pats) \cup {name} |->
                           IF n = name THEN pat ELSE pats[n]],
              str |-> str, err |-> NoErr]

NamedPattern(pats, name, str) ==
    IF name \in DOMAIN pats
    THEN [pats |-> pats, str |-> str,
          err |-> <<"pattern with name ", name, " already exists">>]
    ELSE LET pat == ParsePattern(str)
         IN  IF pat.err # NoErr
             THEN [pats |-> pats, str |-> str,
                   err |-> <<"failed to parse pattern: ">> \o pat.err]
             ELSE [pats |-> [n \in (DOMAIN pats) \cup {name} |->
                                IF n = name THEN pat ELSE pats[n]],
                   str |-> str, err |-> NoErr]

Named(pats, name, str) ==
    LET r == NamedPattern(pats, name, str)
    IN  [pats |-> r.pats, str |-> r.str,
         panic |-> IF r.err # NoErr THEN <<"bhttp: ">> \o r.err ELSE NoPanic]

\* ---------------------------------------------------------------- middleware
\* A BareHandler is the sequence of its layers, outermost first: "mw" a
\* middleware, "strip" the prefix strip of a mount, and last the leaf:
\* "handler" (a Handler through ToBare), "bare" (a BareHandler) or "std" (an
\* http.Handler that is served and returns nil).
MwIds == {"m1", "m2"}
Layer(kind, arg) == [kind |-> kind, arg |-> arg]
ToBare(h) == <<Layer("handler", <<h>>)>>

\* the adapter of an http.Handler that hands on an error of its handler
StdAsBareReturnsErr(h) == <<Layer("bare", <<h>>)>>

StdAsBare(h) == <<Layer("std", <<h>>)>>

\* what the leaf of a BareHandler returns when its handler ends with herr in
\* hand: the adapter of an http.Handler calls ServeHTTP and returns nil
LeafReturn(h, herr) == IF h[Len(h)].kind = "std" THEN << >> ELSE herr

\* for i := len(m) - 1; i >= 0; i-- { wrapped = m[i](wrapped) }
RECURSIVE WrapLoop(_, _, _)
WrapLoop(i, wrapped, m) ==
    IF i < 1 THEN wrapped ELSE WrapLoop(i - 1, <<Layer("mw", <<m[i]>>)>> \o wrapped, m)

\* Wrap whose loop runs from the first middleware to the last
WrapFirstInnermost(h, m) ==
    LET inner == ToBare(h)
    IN  IF Len(m) < 1 THEN inner
        ELSE WrapLoop(Len(m), inner, [i \in 1..Len(m) |-> m[Len(m) + 1 - i]])

Wrap(h, m) ==
    LET inner == ToBare(h)
    IN  IF Len(m) < 1 THEN inner ELSE WrapLoop(Len(m), inner, m)

wrapBare(h, m) == IF Len(m) < 1 THEN h ELSE WrapLoop(Len(m), h, m)

\* the calls one request makes going through a BareHandler whose middleware
\* all call next once
RECURSIVE ServeBareBHTTP(_)
ServeBareBHTTP(h) ==
    IF h = << >> THEN << >>
    ELSE LET l == Head(h)
         IN  IF l.kind = "mw"
             THEN <<[ev |-> "before", who |-> l.arg[1]]>> \o ServeBareBHTTP(Tail(h))
                  \o <<[ev |-> "after", who |-> l.arg[1]]>>
             ELSE IF l.kind = "strip" THEN ServeBareBHTTP(Tail(h))
             ELSE <<[ev |-> "handler", who |-> l.arg[1]]>>

\* ---------------------------------------------------------------- ServeMux
PanicUse == <<"bhttp: cannot call Use() after calling Handle">>
PanicConflict == <<"pattern conflicts">>

\* the http.Handler ToStd returns for a BareHandler
ToStd(h, limit) == [bare |-> h, bufLimit |-> limit]

NoRoutes == [p \in {} |-> ToStd(<< >>, 0)]

\* NewServeMux: cap -1, http.NewServeMux(), NewReverser()
NewServeMux ==
    [bufLimit |-> -1,
     middlewares |-> [captured |-> FALSE, buffered |-> << >>],
     routes |-> NoRoutes,
     reverser |-> NewReverser]

ensureNoUseAfterHandle(m) == IF m.middlewares.captured THEN PanicUse ELSE NoPanic

\* Use that does not look at the captured flag
UseUnguarded(m, mw) ==
    [m |-> [m EXCEPT !.middlewares.buffered = m.middlewares.buffered \o mw],
     panic |-> NoPanic]

Use(m, mw) ==
    IF ensureNoUseAfterHandle(m) # NoPanic
    THEN [m |-> m, panic |-> ensureNoUseAfterHandle(m)]
    ELSE [m |-> [m EXCEPT !.middlewares.buffered = m.middlewares.buffered \o mw],
          panic |-> NoPanic]

\* http.ServeMux.Handle: panics on a pattern it cannot parse and on a pattern
\* that conflicts with a registered one
HostMuxHandle(routes, pattern, handler) ==
    LET register(perr) ==
            IF perr # NoErr THEN [routes |-> routes, panic |-> <<"parsing: ">> \o perr]
            ELSE IF pattern \in DOMAIN routes
            THEN [routes |-> routes, panic |-> PanicConflict]
            ELSE [routes |-> [p \in (DOMAIN routes) \cup {pattern} |->
                                IF p = pattern THEN handler ELSE routes[p]],
                  panic |-> NoPanic]
    IN  register(ParsePattern(pattern).err)

\* name is << >> or <<n>> (the variadic name argument)
handle(m, pattern, handler, name) ==
    LET m1 == [m EXCEPT !.middlewares.captured = TRUE]
        \* m.mux.Handle(pattern, handler)
        routed(nm, hm) ==
            [m |-> [m1 EXCEPT !.reverser = nm.pats, !.routes = hm.routes],
             panic |-> hm.panic]
        \* pattern = m.reverser.Named(name[0], pattern)
        named(nm) ==
            IF nm.panic # NoPanic THEN [m |-> m1, panic |-> nm.panic]
            ELSE routed(nm, HostMuxHandle(m.routes, nm.str, handler))
    IN  named(IF Len(name) > 0 THEN Named(m.reverser, name[1], pattern)
              ELSE [pats |-> m.reverser, str |-> pattern, panic |-> NoPanic])

Handle(m, pattern, h, name) ==
    handle(m, pattern, ToStd(Wrap(h, m.middlewares.buffered), m.bufLimit), name)

HandleFunc(m, pattern, h, name) == Handle(m, pattern, h, name)

HandleStd(m, pattern, h, name) ==
    handle(m, pattern, ToStd(wrapBare(StdAsBare(h), m.middlewares.buffered), m.bufLimit), name)

\* strings.LastIndex(pattern, "/") and strings.Index(prefix, " ") on tokens
\* (0 when there is none)
LastIndexOf(str, tok) ==
    LET I == {i \in 1..Len(str) : str[i] = tok}
    IN  IF I = {} THEN 0 ELSE CHOOSE i \in I : \A j \in I : j <= i
IndexOf(str, tok) ==
    LET I == {i \in 1..Len(str) : str[i] = tok}
    IN  IF I = {} THEN 0 ELSE CHOOSE i \in I : \A j \in I : i <= j

splitMethodPattern(pattern) ==
    LET idx      == LastIndexOf(pattern, "/")
        prefix   == SubSeq(pattern, 1, idx - 1)
        spaceIdx == IndexOf(prefix, " ")
    IN  IF idx > 1 /\ spaceIdx >= 1
        THEN [method |-> SubSeq(pattern, 1, spaceIdx),
              path |-> SubSeq(pattern, spaceIdx + 1, Len(pattern))]
        ELSE [method |-> << >>, path |-> pattern]

stripPrefixBare(prefix, handler) == <<Layer("strip", prefix)>> \o handler

\* MountBare that hands its routes to m.mux itself
MountBareDirect(m, pattern, handler) ==
    LET sp         == splitMethodPattern(pattern)
        stripped   == stripPrefixBare(sp.path, handler)
        wrapped    == wrapBare(stripped, m.middlewares.buffered)
        stdHandler == ToStd(wrapped, m.bufLimit)
        exact      == sp.method \o sp.path
        subtree    == sp.method \o sp.path \o <<"/">>
        r1         == HostMuxHandle(m.routes, exact, stdHandler)
        r2         == HostMuxHandle(r1.routes, subtree, stdHandler)
    IN  IF r1.panic # NoPanic THEN [m |-> m, panic |-> r1.panic]
        ELSE [m |-> [m EXCEPT !.routes = r2.routes], panic |-> r2.panic]

\* MountBare that registers the exact pattern only
MountBareExactOnly(m, pattern, handler) ==
    LET sp         == splitMethodPattern(pattern)
        stripped   == stripPrefixBare(sp.path, handler)
        wrapped    == wrapBare(stripped, m.middlewares.buffered)
        stdHandler == ToStd(wrapped, m.bufLimit)
        exact      == sp.method \o sp.path
    IN  handle(m, exact, stdHandler, << >>)

MountBare(m, pattern, handler) ==
    LET sp         == splitMethodPattern(pattern)
        stripped   == stripPrefixBare(sp.path, handler)
        wrapped    == wrapBare(stripped, m.middlewares.buffered)
        stdHandler == ToStd(wrapped, m.bufLimit)
        exact      == sp.method \o sp.path
        subtree    == sp.method \o sp.path \o <<"/">>
        \* m.handle(subtree, stdHandler), unless m.handle(exact, stdHandler) panicked
        second(r1) == IF r1.panic # NoPanic THEN r1
                      ELSE handle(r1.m, subtree, stdHandler, << >>)
    IN  CHOOSE r2 \in {second(r1) : r1 \in {handle(m, exact, stdHandler, << >>)}} : TRUE

Mount(m, pattern, h) == MountBare(m, pattern, ToBare(h))
MountFunc(m, pattern, h) == Mount(m, pattern, h)
MountStd(m, pattern, h) == MountBare(m, pattern, StdAsBare(h))

\* one request served by the http.Handler ToStd returned, whose handler runs
\* prog on the writer it is given and ends with herr in hand
ServeToStd(std, prog, herr, hostHeader) ==
    LET ret == LeafReturn(std.bare, herr)
        t   == ToStdTail(Run(prog, Fresh(hostHeader, std.bufLimit)), ret, TRUE)
    IN  [wire |-> Wire(t.s.resp), ret |-> ret, unhandled |-> t.unhandled,
         implicit |-> t.implicit, trace |-> ServeBareBHTTP(std.bare)]

\* ---------------------------------------------------------------- requests
\* A request target is the sequence of the tokens of its escaped path; a
\* token with a percent-encoded letter stands for the same segment.
ReqMethods == {"GET", "POST"}
Targets ==
    {<<"/", "api">>, <<"/", "api", "/">>, <<"/", "api", "/", "users">>,
     <<"/", "%61pi", "/", "users">>, <<"/", "api", "/", "us%65rs">>,
     <<"/", "users", "/", "42">>, <<"/", "posts">>}
Requests == [method : ReqMethods, target : Targets]

\* url.PathUnescape of one segment
Unescape(tok) ==
    CASE tok = "%61pi"   -> "api"
      [] tok = "us%65rs" -> "users"
      [] OTHER           -> tok
UnescapePath(raw) == [i \in 1..Len(raw) |-> Unescape(raw[i])]

\* The objects of one request: reqs the *http.Request objects (url is the
\* index of the *url.URL it points to, ctx the values of its context), urls
\* the url.URL objects.  A request is known by its index in reqs.
\* httptest.NewRequest: RawPath is set only when the target is not the
\* default encoding of Path.
NewRequest(method, target) ==
    [reqs |-> <<[method |-> method, url |-> 1, ctx |-> {}]>>,
     urls |-> <<[Path |-> UnescapePath(target),
                 RawPath |-> IF UnescapePath(target) = target THEN << >> ELSE target]>>]

\* r.WithContext(ctx): a shallow copy of the request, pointing to the same URL
WithContext(heap, r, v) ==
    [heap EXCEPT !.reqs = Append(heap.reqs,
                                 [heap.reqs[r] EXCEPT !.ctx = heap.reqs[r].ctx \cup {v}])]

\* strings.TrimPrefix
TrimPrefix(str, prefix) ==
    IF Len(prefix) <= Len(str) /\ SubSeq(str, 1, Len(prefix)) = prefix
    THEN SubSeq(str, Len(prefix) + 1, Len(str))
    ELSE str

\* the strip of stripPrefixBare that writes the new paths into the URL of r
StripRequestSharesURL(heap, r, prefix) ==
    LET u        == heap.urls[heap.reqs[r].url]
        slash(x) == IF x = << >> THEN <<"/">> ELSE x
        p        == slash(TrimPrefix(u.Path, prefix))
        rp       == IF u.RawPath # << >> THEN slash(TrimPrefix(u.RawPath, prefix)) ELSE << >>
    IN  [urls |-> [heap.urls EXCEPT ![heap.reqs[r].url] = [Path |-> p, RawPath |-> rp]],
         reqs |-> Append(heap.reqs, heap.reqs[r])]

\* the function stripPrefixBare returns, up to its call of the handler: r2
\* is a new request (the last of reqs) with a new URL
StripRequest(heap, r, prefix) ==
    LET u        == heap.urls[heap.reqs[r].url]
        slash(x) == IF x = << >> THEN <<"/">> ELSE x
        p        == slash(TrimPrefix(u.Path, prefix))
        rp       == IF u.RawPath # << >> THEN slash(TrimPrefix(u.RawPath, prefix)) ELSE << >>
    IN  [urls |-> Append(heap.urls, [Path |-> p, RawPath |-> rp]),
         reqs |-> Append(heap.reqs, [heap.reqs[r] EXCEPT !.url = Len(heap.urls) + 1])]

\* What each layer of a BareHandler sees of the request it is given: a
\* middleware before it calls next and after next returns, the leaf when it
\* is called.  Middleware m1 calls next with r.WithContext (as the
\* middleware of the mount tests), any other with r itself.
RECURSIVE ServeRequest(_, _, _)
ServeRequest(h, heap, r) ==
    LET l == Head(h)
        seen(ev, hp) ==
            [ev |-> ev, who |-> l.arg[1],
             path |-> hp.urls[hp.reqs[r].url].Path,
             raw |-> hp.urls[hp.reqs[r].url].RawPath,
             ctx |-> hp.reqs[r].ctx]
        around(inner) ==
            [heap |-> inner.heap,
             trace |-> <<seen("before", heap)>> \o inner.trace \o <<seen("after", inner.heap)>>]
    IN  IF l.kind = "mw"
        THEN around(IF l.arg[1] = "m1"
                    THEN ServeRequest(Tail(h), WithContext(heap, r, "m1"), Len(heap.reqs) + 1)
                    ELSE ServeRequest(Tail(h), heap, r))
        ELSE IF l.kind = "strip"
        THEN ServeRequest(Tail(h), StripRequest(heap, r, l.arg), Len(heap.reqs) + 1)
        ELSE [heap |-> heap, trace |-> <<seen("handler", heap)>>]

\* http.ServeMux matching.  The segments of a path; a trailing slash gives a
\* last empty one.
SegsOf(path) ==
    [i \in 1..((Len(path) + 1) \div 2) |-> IF 2 * i <= Len(path) THEN path[2 * i] ELSE ""]
PatMethod(pattern) == IF Len(pattern) >= 2 /\ pattern[2] = " " THEN pattern[1] ELSE ""

\* a pattern ending in "/" matches the paths under it, one ending in {$}
\* only the path with the trailing slash, any other a path of its segments
MatchesPath(pattern, path) ==
    LET ps == SegsOf(PathOf(pattern))
        rs == SegsOf(path)
        n  == Len(ps)
        segOK(i) == i <= Len(rs) /\ (IF ps[i] \in WildTokens THEN rs[i] # ""
                                      ELSE rs[i] = ps[i])
    IN  CASE ps[n] = ""       -> Len(rs) >= n /\ \A i \in 1..(n - 1) : segOK(i)
          [] ps[n] = EndToken -> Len(rs) = n /\ rs[n] = "" /\ \A i \in 1..(n - 1) : segOK(i)
          [] OTHER            -> Len(rs) = n /\ \A i \in 1..n : segOK(i)

\* a pattern without a method matches every method, GET matches HEAD too
MethodOK(pattern, method) ==
    \/ PatMethod(pattern) = ""
    \/ PatMethod(pattern) = method
    \/ (PatMethod(pattern) = "GET" /\ method = "HEAD")

\* The route m.mux gives a request to (status 0), or the reply m.mux makes
\* itself: 301 to the path with a trailing slash, 405 when only the method
\* stands in the way, 404.  A pattern with a method goes before one without.
HostMuxMatch(routes, method, path) ==
    LET byPath == {p \in DOMAIN routes : MatchesPath(p, path)}
        ok     == {p \in byPath : MethodOK(p, method)}
        best   == {p \in ok : PatMethod(p) # "" \/ \A q \in ok : PatMethod(q) = ""}
    IN  IF ok # {} THEN [status |-> 0, pattern |-> CHOOSE p \in best : TRUE]
        ELSE IF /\ path[Len(path)] # "/"
                /\ \E p \in DOMAIN routes :
                      MatchesPath(p, path \o <<"/">>) /\ MethodOK(p, method)
        THEN [status |-> 301, pattern |-> << >>]
        ELSE IF byPath # {} THEN [status |-> 405, pattern |-> << >>]
        ELSE [status |-> 404, pattern |-> << >>]

\* ---------------------------------------------------------------- pool
\* responseBufferPool and the requests ToStd serves at the same time.  An
\* instance is known by its index in insts: w its fields, ref the request
\* whose host writer w.resp points to (0 is nil), used whether Free was last
\* called on it with a latched header, a side header map and bytes left in
\* its buffer.
PoolReqs   == {1, 2}
PoolLimits == {-1, 1}
PoolProgs  ==
    {<< >>,
     <<[op |-> "WriteHeader", arg |-> <<201>>], [op |-> "Header", arg |-> <<"Is-Bar">>],
       [op |-> "Write", arg |-> <<"a">>]>>}
PoolErr == <<PlainNode>>

\* New: func() interface{} { return new(ResponseBuffer) }
PoolNew == [w |-> ZeroResponseBuffer, ref |-> 0, used |-> FALSE]

IdleRequest ==
    [pc |-> "idle", held |-> 0, limit |-> 0, resp |-> NewHostWriter(EmptyHeader),
     got |-> ZeroResponseBuffer, gotRef |-> 0, prev |-> FALSE,
     served |-> FALSE, releases |-> 0, exit |-> ""]

NoPool ==
    [insts |-> << >>, pool |-> {}, reqs |-> [r \in PoolReqs |-> IdleRequest], rounds |-> 0]

\* the instances Get can return: one of the pool, or a new one
Gettable(p) == p.pool \cup {Len(p.insts) + 1}

\* Get that leaves the instance in the pool
PoolGetLeaves(p, i) ==
    [p EXCEPT !.insts = IF i > Len(p.insts) THEN Append(p.insts, PoolNew) ELSE p.insts]

\* responseBufferPool.Get() returning instance i
PoolGet(p, i) ==
    [p EXCEPT !.insts = IF i > Len(p.insts) THEN Append(p.insts, PoolNew) ELSE p.insts,
              !.pool = p.pool \ {i}]

\* newBufferResponse(resp, limit) for request r, Get returning instance i
PoolAcquireFor(p, i, r, limit) ==
    LET bind(g) == [g EXCEPT !.insts[i].w = newBufferResponse(g.insts[i].w, limit),
                             !.insts[i].ref = r]
    IN  bind(PoolGet(p, i))

\* (w *ResponseBuffer) Free() on instance i
PoolFree(p, i) ==
    [p EXCEPT !.insts[i] = [w |-> Free(p.insts[i].w), ref |-> 0,
                            used |-> /\ p.insts[i].w.headerFlushed
                                     /\ ~p.insts[i].w.unflushableHeader.isNil
                                     /\ p.insts[i].w.buf # << >>],
              !.pool = p.pool \cup {i}]

\* ToStd that calls Free as its last statement instead of deferring it
FreeAtEnd(p, i, panicked) ==
    IF panicked THEN [p |-> p, released |-> 0] ELSE [p |-> PoolFree(p, i), released |-> 1]

\* defer bresp.Free(): runs when the function ToStd returns ends, by return
\* or by panic
deferFree(p, i, panicked) == [p |-> PoolFree(p, i), released |-> 1]

\* the pair [w, resp] of instance i: resp is the host writer w.resp points to
PairOf(p, i) ==
    [w |-> p.insts[i].w,
     resp |-> IF p.insts[i].ref = 0 THEN NewHostWriter(EmptyHeader)
              ELSE p.reqs[p.insts[i].ref].resp]

\* instance i and the host writer it points to after calls that gave the pair s
WithPair(p, i, s) ==
    LET q == [p EXCEPT !.insts[i].w = s.w]
    IN  IF p.insts[i].ref = 0 THEN q ELSE [q EXCEPT !.reqs[p.insts[i].ref].resp = s.resp]

\* ---------------------------------------------------------------- state
VARIABLES
    pc,        \* "idle", "serving", "done" (ServeHTTP returned), "panicked"
    bufLimit,  \* the cap ToStd was built with
    bresp,     \* the ResponseBuffer
    resp,      \* the host writer of the request
    logs,      \* Logger: the errors passed to each method
    retErr,    \* what the handler chain returned (<< >> is nil)
    nops,      \* calls made on the ResponseBuffer so far
    last,      \* the last call on the ResponseBuffer and its results
    pre,       \* the pair [w, resp] before the last call
    flushes,   \* flush calls the handler chain made
    flushedOK, \* a flush call of the handler chain returned nil
    retHostOK, \* the host writer took the writes ToStd made after the return
    progs,     \* replay: the programs run before and after Reset
    wires,     \* replay: the responses of the runs made so far
    mux,       \* the ServeMux: middlewares, the routes of m.mux, m.reverser.pats
    mlast,     \* the last call on the ServeMux or the Reverser and its results
    pl         \* the pool of ResponseBuffers and the requests served at the same time

reqvars == <<pc, bufLimit, bresp, resp, logs, retErr, nops, last, pre, flushes,
             flushedOK, retHostOK, progs, wires>>
vars == <<pc, bufLimit, bresp, resp, logs, retErr, nops, last, pre, flushes,
          flushedOK, retHostOK, progs, wires, mux, mlast, pl>>

S == [w |-> bresp, resp |-> resp]

NoCall == [op |-> "", arg |-> << >>, n |-> 0, err |-> "", panic |-> NoPanic]
Call(op, arg, n, err, panic) == [op |-> op, arg |-> arg, n |-> n, err |-> err, panic |-> panic]
NoWires == [k \in {} |-> Wire(NewHostWriter(EmptyHeader))]

NoMuxCall ==
    [n |-> 0, regs |-> 0, op |-> "", pattern |-> << >>, name |-> << >>, mw |-> << >>,
     vals |-> << >>, panic |-> NoPanic, err |-> NoErr, res |-> << >>, trace |-> << >>,
     pre |-> NewServeMux, src |-> [nm \in {} |-> << >>],
     req |-> [method |-> "", target |-> << >>], seen |-> << >>, status |-> 0]

InitRequest ==
    /\ pc = "idle"
    /\ bufLimit \in -1 .. MaxLimit
    /\ bresp = ZeroResponseBuffer
    /\ resp \in {NewHostWriter(h) : h \in PresetHeaders}
    /\ logs = [unhandled |-> << >>, implicit |-> << >>]
    /\ retErr = << >>
    /\ nops = 0
    /\ last = NoCall
    /\ pre = S
    /\ flushes = 0
    /\ flushedOK = FALSE
    /\ retHostOK = TRUE
    /\ wires = NoWires
    /\ mux = NewServeMux
    /\ mlast = NoMuxCall
    /\ pl = NoPool

Init ==
    /\ InitRequest
    /\ progs = << << >>, << >> >>

\* ToStd, entry: NewResponseWriter(resp, bufLimit)
Acquire ==
    /\ pc = "idle"
    /\ pc' = "serving"
    /\ bresp' = newBufferResponse(bresp, bufLimit)
    /\ pre' = [w |-> bresp', resp |-> resp]
    /\ UNCHANGED <<bufLimit, resp, logs, retErr, nops, last, flushes, flushedOK, retHostOK,
                   progs, wires, mux, mlast, pl>>

Step(s2, call) ==
    /\ pc = "serving"
    /\ nops < MaxOps
    /\ nops' = nops + 1
    /\ bresp' = s2.w
    /\ resp' = s2.resp
    /\ last' = call
    /\ pre' = S
    /\ flushes' = IF call.op \in {"FlushBuffer", "FlushError"} THEN flushes + 1 ELSE flushes
    /\ flushedOK' = (flushedOK \/ (call.op \in {"FlushBuffer", "FlushError"} /\ call.err = ""))
    /\ UNCHANGED <<pc, bufLimit, logs, retErr, retHostOK, progs, wires, mux, mlast, pl>>

DoHeaderSet ==
    \E k \in DOMAIN HandlerHeader :
        Step(HeaderSetOn(S, k, HandlerHeader[k]), Call("Header", <<k>>, 0, "", NoPanic))

\* h.Set on the map the handler got from Header() when it started
DoHeldHeaderSet ==
    \E k \in {"Is-Bar"} :
        Step(HeldHeaderSet(S, k, HandlerHeader[k]), Call("HeldHeader", <<k>>, 0, "", NoPanic))

DoWriteHeader ==
    \E c \in HandlerStatus :
        Step(WriteHeader(S, c), Call("WriteHeader", <<c>>, 0, "", NoPanic))

DoWrite ==
    \E p \in WriteInputs :
        LET r == Write(S, p) IN Step(r.s, Call("Write", p, r.n, r.err, NoPanic))

\* Reset called by the handler or a middleware; a panic is recovered by the
\* caller (as a recover middleware does) and the chain goes on.
DoReset ==
    LET r == Reset(S) IN Step(r.s, Call("Reset", << >>, 0, "", r.panic))

DoFlushBuffer ==
    \E hostOK \in BOOLEAN :
        LET r == FlushBuffer(S, hostOK)
        IN  Step(r.s, Call("FlushBuffer", << >>, 0, r.err, NoPanic))

DoFlushError ==
    \E hostOK \in BOOLEAN, flushOK \in BOOLEAN :
        LET r == FlushError(S, hostOK, flushOK)
        IN  Step(r.s, Call("FlushError", << >>, 0, r.err, NoPanic))

\* The handler chain returns err; ToStd finishes the request.
Return ==
    /\ pc = "serving"
    /\ \E err \in Errs \cup {<< >>}, hostOK \in BOOLEAN :
        LET t == ToStdTail(S, err, hostOK)
        IN  /\ retErr' = err
            /\ logs' = [unhandled |-> logs.unhandled \o t.unhandled,
                        implicit  |-> logs.implicit \o t.implicit]
            /\ bresp' = Free(t.s.w)
            /\ resp' = t.s.resp
            /\ pc' = IF t.panic # NoPanic THEN "panicked" ELSE "done"
            /\ retHostOK' = hostOK
            /\ last' = Call("Return", << >>, t.flushCalls,
                             IF t.implicit = << >> THEN "" ELSE t.implicit[1], t.panic)
            /\ pre' = S
    /\ UNCHANGED <<bufLimit, nops, flushes, flushedOK, progs, wires, mux, mlast, pl>>

\* w.Header()[k] = []string{v} on the map Header() returns
HeaderAssignOn(s, k, v) ==
    IF s.w.headerFlushed
    THEN [s EXCEPT !.w.unflushableHeader =
                      [isNil |-> FALSE, h |-> HeaderAssign(s.w.unflushableHeader.h, k, v)]]
    ELSE [s EXCEPT !.resp.header = HeaderAssign(s.resp.header, k, v)]

DoHeaderAssign ==
    \E k \in {"x-raw"} :
        Step(HeaderAssignOn(S, k, "raw"), Call("HeaderAssign", <<k>>, 0, "", NoPanic))

Next ==
    \/ Acquire
    \/ DoHeaderSet
    \/ DoHeldHeaderSet
    \/ DoWriteHeader
    \/ DoWrite
    \/ DoReset
    \/ DoFlushBuffer
    \/ DoFlushError
    \/ Return

Spec == Init /\ [][Next]_vars

\* a handler chain that sets headers, also by map assignment, on a host
\* writer that may hold a key in any form, and resets
InitReset ==
    /\ pc = "idle"
    /\ bufLimit \in -1 .. MaxLimit
    /\ bresp = ZeroResponseBuffer
    /\ resp \in {NewHostWriter(h) : h \in RawPresetHeaders}
    /\ logs = [unhandled |-> << >>, implicit |-> << >>]
    /\ retErr = << >>
    /\ nops = 0
    /\ last = NoCall
    /\ pre = S
    /\ flushes = 0
    /\ flushedOK = FALSE
    /\ retHostOK = TRUE
    /\ wires = NoWires
    /\ mux = NewServeMux
    /\ mlast = NoMuxCall
    /\ pl = NoPool
    /\ progs = << << >>, << >> >>

NextReset ==
    \/ Acquire
    \/ DoHeaderSet
    \/ DoHeaderAssign
    \/ DoWriteHeader
    \/ DoWrite
    \/ DoReset
    \/ DoFlushBuffer

SpecReset == InitReset /\ [][NextReset]_vars

\* ---------------------------------------------------------------- replay
\* Handler programs run on a ResponseBuffer of cap bufLimit whose host writer
\* carries the header map of resp, each run ended by FlushBuffer:
\*   "reset": progs[1], Reset, progs[2];  "fresh": progs[2] alone on a new
\*   ResponseBuffer over an empty host writer;  "once": progs[1] alone.
\* The last run, "std", has no ResponseBuffer.
InitReplay ==
    /\ InitRequest
    /\ progs \in ProgPairs

Flushed(s) == Wire(FlushBuffer(s, TRUE).s.resp)

Record(name, wire) ==
    /\ wires' = [k \in (DOMAIN wires) \cup {name} |-> IF k = name THEN wire ELSE wires[k]]
    /\ UNCHANGED <<pc, bufLimit, bresp, resp, logs, retErr, nops, last, pre, flushes,
                   flushedOK, retHostOK, progs, mux, mlast, pl>>

ReplayWithReset ==
    /\ DOMAIN wires = {}
    /\ Record("reset",
              Flushed(Run(progs[2], Reset(Run(progs[1], Fresh(resp.header, bufLimit))).s)))

ReplayFresh ==
    /\ DOMAIN wires = {"reset"}
    /\ Record("fresh", Flushed(Run(progs[2], Fresh(EmptyHeader, bufLimit))))

ReplayOnce ==
    /\ DOMAIN wires = {"reset", "fresh"}
    /\ Record("once", Flushed(Run(progs[1], Fresh(resp.header, bufLimit))))

\* "std": progs[1] run on the host's standard writer itself
ReplayStd ==
    /\ DOMAIN wires = {"reset", "fresh", "once"}
    /\ Record("std", Wire(StdFinish(StdRun(progs[1], NewHostWriter(resp.header)))))

\* "owned": progs[1] run by an http.Handler registered with HandleStd or
\* MountStd on a mux with middleware mw and the cap bufLimit
OwnedPattern == <<"/", "api">>
ReplayOwned ==
    /\ DOMAIN wires = {"reset", "fresh", "once", "std"}
    /\ \E op \in {"HandleStd", "MountStd"}, mw \in {<< >>, <<"m1">>, <<"m1", "m2">>},
          herr \in {<< >>, PoolErr} :
          \E reg \in {IF op = "HandleStd"
                      THEN HandleStd(Use([NewServeMux EXCEPT !.bufLimit = bufLimit], mw).m,
                                     OwnedPattern, "h", << >>)
                      ELSE MountStd(Use([NewServeMux EXCEPT !.bufLimit = bufLimit], mw).m,
                                    OwnedPattern, "h")} :
              \E out \in {ServeToStd(reg.m.routes[OwnedPattern], progs[1], herr,
                                      resp.header)} :
                  /\ wires' = [k \in (DOMAIN wires) \cup {"owned"} |->
                                 IF k = "owned" THEN out.wire ELSE wires[k]]
                  /\ logs' = [unhandled |-> out.unhandled, implicit |-> out.implicit]
                  /\ retErr' = herr
                  /\ mux' = reg.m
                  /\ mlast' = [NoMuxCall EXCEPT !.op = op, !.pattern = OwnedPattern,
                                                !.mw = mw, !.res = out.ret,
                                                !.trace = out.trace]
                  /\ UNCHANGED <<pc, bufLimit, bresp, resp, nops, last, pre, flushes,
                                 flushedOK, retHostOK, progs, pl>>

NextReplay ==
    \/ ReplayWithReset
    \/ ReplayFresh
    \/ ReplayOnce
    \/ ReplayStd
    \/ ReplayOwned

SpecReplay == InitReplay /\ [][NextReplay]_vars

\* ---------------------------------------------------------------- mux calls
\* The calls a program makes on one ServeMux while setting it up, a panic
\* being recovered by the caller, and requests served by its routes.
RegistrationOps == {"Handle", "HandleFunc", "HandleStd",
                    "Mount", "MountFunc", "MountBare", "MountStd"}
UseArgs       == {<<"m1">>, <<"m2">>, <<"m1", "m2">>}
HandlePatterns == {<<"/", "users", "/", "{userId}">>, <<"/", "api", "/">>, << >>}
MountPatterns  == {<<"/", "api">>, <<"GET", " ", "/", "api">>}
HandleNames    == {<< >>, <<"n1">>}

\* a ServeMux made by NewServeMux, no request being served
InitMux ==
    /\ Init
    /\ bufLimit = -1
    /\ resp = NewHostWriter(EmptyHeader)

\* one call: c is what was called and what it gave, m2 the ServeMux after it
MuxStep(m2, c) ==
    /\ mlast.n < MaxCalls
    /\ mux' = m2
    /\ mlast' = [c EXCEPT !.n = mlast.n + 1,
                          !.regs = mlast.regs + (IF c.op \in RegistrationOps THEN 1 ELSE 0),
                          !.pre = mux]
    /\ UNCHANGED <<reqvars, pl>>

Registered(op, result, pattern, name) ==
    /\ mlast.n < MaxCalls
    /\ \E r \in {result} :
        MuxStep(r.m, [NoMuxCall EXCEPT !.op = op, !.pattern = pattern, !.name = name,
                                       !.panic = r.panic])

DoUse ==
    \E mw \in UseArgs :
        /\ mlast.n < MaxCalls
        /\ Len(mux.middlewares.buffered) + Len(mw) <= MaxMw
        /\ \E r \in {Use(mux, mw)} :
              MuxStep(r.m, [NoMuxCall EXCEPT !.op = "Use", !.mw = mw, !.panic = r.panic])

DoHandle ==
    \E pattern \in HandlePatterns, name \in HandleNames :
        Registered("Handle", Handle(mux, pattern, "h", name), pattern, name)

DoHandleFunc ==
    \E pattern \in HandlePatterns, name \in HandleNames :
        Registered("HandleFunc", HandleFunc(mux, pattern, "h", name), pattern, name)

DoHandleStd ==
    \E pattern \in HandlePatterns, name \in HandleNames :
        Registered("HandleStd", HandleStd(mux, pattern, "h", name), pattern, name)

DoMount ==
    \E pattern \in MountPatterns :
        Registered("Mount", Mount(mux, pattern, "h"), pattern, << >>)

DoMountFunc ==
    \E pattern \in MountPatterns :
        Registered("MountFunc", MountFunc(mux, pattern, "h"), pattern, << >>)

DoMountBare ==
    \E pattern \in MountPatterns :
        Registered("MountBare", MountBare(mux, pattern, <<Layer("bare", <<"h">>)>>),
                   pattern, << >>)

DoMountStd ==
    \E pattern \in MountPatterns :
        Registered("MountStd", MountStd(mux, pattern, "h"), pattern, << >>)

\* ServeMux.Reverse
DoMuxReverse ==
    \E name \in {"n1"}, vals \in {<<"42">>} :
        LET r == Reverse(mux.reverser, name, vals)
        IN  MuxStep(mux, [NoMuxCall EXCEPT !.op = "Reverse", !.name = <<name>>,
                                          !.vals = vals, !.err = r.err, !.res = r.res])

\* ServeMux.ServeHTTP for a request that m.mux gives to one of the routes
DoServeHTTP ==
    \E rq \in Requests :
        /\ mlast.n < MaxCalls
        /\ \E hit \in {HostMuxMatch(mux.routes, rq.method, UnescapePath(rq.target))} :
              /\ hit.status = 0
              /\ \E out \in {ServeRequest(mux.routes[hit.pattern].bare,
                                           NewRequest(rq.method, rq.target), 1)} :
                    MuxStep(mux, [NoMuxCall EXCEPT
                                    !.op = "ServeHTTP", !.pattern = hit.pattern,
                                    !.trace = ServeBareBHTTP(mux.routes[hit.pattern].bare),
                                    !.req = rq, !.seen = out.trace])

\* ServeMux.ServeHTTP for a request that m.mux answers itself
DoHostReply ==
    \E rq \in Requests :
        /\ mlast.n < MaxCalls
        /\ \E hit \in {HostMuxMatch(mux.routes, rq.method, UnescapePath(rq.target))} :
              /\ hit.status # 0
              /\ MuxStep(mux, [NoMuxCall EXCEPT !.op = "HostReply", !.req = rq,
                                                !.status = hit.status])

NextMux ==
    \/ DoUse
    \/ DoHandle
    \/ DoHandleFunc
    \/ DoHandleStd
    \/ DoMount
    \/ DoMountFunc
    \/ DoMountBare
    \/ DoMountStd
    \/ DoMuxReverse
    \/ DoServeHTTP
    \/ DoHostReply

SpecMux == InitMux /\ [][NextMux]_vars

\* ---------------------------------------------------------------- reverser calls
\* The pattern strings given to a Reverser: with or without a method, up to
\* MaxSegs segments, and some that are not patterns.
SegTokens == {"users", "posts", "{userId}", "{postId}", EndToken}

RECURSIVE PathsOf(_)
PathsOf(n) ==
    IF n = 0 THEN {<< >>}
    ELSE {<<"/", tok>> \o q : tok \in SegTokens, q \in PathsOf(n - 1)}

PatternStrings ==
    {mp \o q : mp \in {<< >>, <<"GET", " ">>},
                q \in UNION {PathsOf(n) : n \in 1..MaxSegs}}
    \cup {<< >>, <<"/">>, <<"/", "users", "/">>, <<"/", "{}">>, <<"users">>,
          <<"POST", " ", "/">>, <<"/", "/">>}

AltPattern == <<"/", EndToken>>

RECURSIVE ValSeqsOf(_)
ValSeqsOf(n) ==
    IF n = 0 THEN {<< >>} ELSE {<<v>> \o q : v \in Values, q \in ValSeqsOf(n - 1)}
ValSeqs == UNION {ValSeqsOf(n) : n \in 0..MaxVals}

\* the first registration takes any pattern string under "n1", the second
\* one AltPattern under a used or a new name
RegisterArgs ==
    IF mlast.n = 0 THEN {<<"n1", str>> : str \in PatternStrings}
    ELSE {<<name, AltPattern>> : name \in {"n1", "n2"}}

\* one call on the Reverser; src keeps the string each name was accepted with
RevStep(pats, c) ==
    /\ mux' = [mux EXCEPT !.reverser = pats]
    /\ mlast' = [c EXCEPT !.n = mlast.n + 1, !.pre = mux,
                          !.src = IF c.op # "Reverse" /\ c.err = NoErr /\ c.panic = NoPanic
                                  THEN [nm \in (DOMAIN mlast.src) \cup {c.name[1]} |->
                                          IF nm = c.name[1] THEN c.pattern ELSE mlast.src[nm]]
                                  ELSE mlast.src]
    /\ UNCHANGED <<reqvars, pl>>

DoNamedPattern ==
    /\ mlast.n <= 1
    /\ \E a \in RegisterArgs :
          LET r == NamedPattern(mux.reverser, a[1], a[2])
          IN  RevStep(r.pats, [NoMuxCall EXCEPT !.op = "NamedPattern", !.name = <<a[1]>>,
                                               !.pattern = a[2], !.res = r.str,
                                               !.err = r.err])

DoNamed ==
    /\ mlast.n <= 1
    /\ \E a \in RegisterArgs :
          LET r == Named(mux.reverser, a[1], a[2])
          IN  RevStep(r.pats, [NoMuxCall EXCEPT !.op = "Named", !.name = <<a[1]>>,
                                               !.pattern = a[2], !.res = r.str,
                                               !.panic = r.panic])

\* the placeholders of a parsed pattern
WildSegs(pat) == {i \in 1..Len(pat.segs) : pat.segs[i].kind = "wild"}
IsWild(sg) == sg.kind = "wild"
\* for each placeholder of a pattern, in order, its name wrapped in braces
OwnNames(pat) ==
    LET w == SelectSeq(pat.segs, IsWild) IN [i \in 1..Len(w) |-> Braced(w[i].s)]
\* the values given to Reverse: any list of values, or the placeholders' own names
ReverseVals(name) ==
    ValSeqs \cup (IF name \in DOMAIN mux.reverser THEN {OwnNames(mux.reverser[name])}
                  ELSE {})

DoReverse ==
    /\ mlast.op # "Reverse"
    /\ \E name \in {"n1", "bogus"} : \E vals \in ReverseVals(name) :
          LET r == Reverse(mux.reverser, name, vals)
          IN  RevStep(mux.reverser, [NoMuxCall EXCEPT !.op = "Reverse", !.name = <<name>>,
                                                     !.vals = vals, !.err = r.err,
                                                     !.res = r.res])

NextReverser ==
    \/ DoNamedPattern
    \/ DoNamed
    \/ DoReverse

SpecReverser == InitMux /\ [][NextReverser]_vars

\* ================================================================ claims
Range(q) == {q[i] : i \in 1..Len(q)}
HandlerBytes == UNION {Range(p) : p \in WriteInputs}
FlushOps == {"FlushBuffer", "FlushError"}
Returned == pc \in {"done", "panicked"}
\* the header map http.Error leaves on an empty one
ErrorHeader == HeaderSet(HeaderSet(EmptyHeader, "Content-Type", "text/plain; charset=utf-8"),
                         "X-Content-Type-Options", "nosniff")
\* nothing a handler composes is in what the client got from r
NothingComposed(r) ==
    /\ Range(r.body) \cap HandlerBytes = {}
    /\ \A k \in DOMAIN r.sentHeader :
          ~(k \in DOMAIN HandlerHeader /\ r.sentHeader[k] = HandlerHeader[k])
    /\ r.status \notin HandlerStatus
\* the text of the framework *Error found in err
FrameworkText(err) == ErrorText(SubSeq(err, asError(err).at, Len(err)))

C2_Claim ==
    (pc = "done" /\ retErr # << >> /\ CodeOf(retErr) # CodeUnknown
       /\ flushes = 0 /\ retHostOK) =>
        /\ resp.status = CodeOf(retErr)
        /\ resp.body = FrameworkText(retErr) \o <<"\n">>
        /\ logs.unhandled = << >>

C4_Claim ==
    pc = "done" => (resp.numWriteHeader = 1 /\ resp.numWrite <= 1)

\* C5 (as claimed): whatever the handler did before it returned an error,
\* ServeHTTP returns normally and does not panic.
C5_Claim ==
    (Returned /\ retErr # << >>) => pc = "done"

\* C6: a Write succeeds exactly when the cap is unlimited or buffered length
\* plus len(p) is at most the cap; accepted, it appends p and returns len(p);
\* rejected, it returns 0 and ErrBufferFull, the buffer and the host writer
\* are as before.
C6_WriteWithinCap ==
    (pc = "serving" /\ last.op = "Write") =>
        LET fits == pre.w.limit < 0 \/ Len(pre.w.buf) + Len(last.arg) <= pre.w.limit
        IN  /\ (last.err = "") <=> fits
            /\ fits => (last.n = Len(last.arg) /\ bresp.buf = pre.w.buf \o last.arg)
            /\ ~fits => /\ last.n = 0
                        /\ last.err = ErrBufferFull
                        /\ bresp.buf = pre.w.buf
                        /\ resp = pre.resp
            /\ resp.numWriteHeader = pre.resp.numWriteHeader
            /\ resp.body = pre.resp.body

C6_Witness ==
    /\ pc = "serving" /\ last.op = "Write" /\ last.err = ErrBufferFull
    /\ Len(pre.w.buf) = pre.w.limit /\ pre.w.limit > 0 /\ Len(last.arg) = 1

\* C7 (as claimed): with a cap >= 0 the body bytes that reach the host writer
\* over one request never exceed the cap.
C7_Claim ==
    (pc = "serving" /\ bufLimit >= 0) => Len(resp.body) <= bufLimit

\* C7 (amended): with a cap >= 0 the buffer never holds more than cap bytes,
\* so every single flush sends at most cap bytes to the host writer.
C7_CapBoundsBuffer ==
    (pc = "serving" /\ bufLimit >= 0) =>
        /\ Len(bresp.buf) <= bufLimit
        /\ Len(resp.body) - Len(pre.resp.body) <= bufLimit

C7_Witness ==
    /\ pc = "serving" /\ bufLimit >= 1 /\ last.op \in FlushOps
    /\ Len(resp.body) - Len(pre.resp.body) = bufLimit
    /\ Len(resp.body) > bufLimit

\* C8: once a flush of the handler chain has succeeded the body stays flushed
\* for the rest of the request, every Reset panics with a message containing
\* "already flushed" and changes nothing; a Reset before any flush does not
\* panic.
C8_FlushedIsTerminal ==
    pc = "serving" =>
        /\ flushedOK =>
              /\ bresp.bodyFlushed
              /\ "already flushed" \in Range(Reset(S).panic)
              /\ Reset(S).s = S
        /\ (last.op = "Reset" /\ pre.w.bodyFlushed) =>
              ("already flushed" \in Range(last.panic) /\ S = pre)
        /\ flushes = 0 => Reset(S).panic = NoPanic
        /\ (last.op = "Reset" /\ flushes = 0) => last.panic = NoPanic

C8_Witness ==
    /\ pc = "serving" /\ flushedOK /\ last.op = "Reset"
    /\ last.panic = PanicFlushed
    /\ pre.w.buf # << >>

Op(name, arg) == [op |-> name, arg |-> arg]

\* C9: after a Reset made before any flush, the flushed response is the one
\* the calls after the Reset give on a new ResponseBuffer: only their body
\* bytes, only their headers, their status or 200, WriteHeader working again.
C9_ResetStartsOver ==
    {"reset", "fresh"} \subseteq DOMAIN wires => wires["reset"] = wires["fresh"]

C9_Witness ==
    /\ {"reset", "fresh"} \subseteq DOMAIN wires
    /\ progs[1] = <<Op("WriteHeader", <<201>>), Op("Write", <<"a">>)>>
    /\ progs[2] = <<Op("WriteHeader", <<202>>)>>
    /\ wires["reset"].status = 202
    /\ wires["reset"].body = << >>

\* C10 (as claimed): composing a response, Reset, composing the identical
\* response and flushing gives the same status, headers and body as
\* composing it once and flushing.
C10_Claim ==
    ({"reset", "once"} \subseteq DOMAIN wires /\ progs[1] = progs[2]) =>
        wires["reset"] = wires["once"]

\* C10 (amended): the same, when the host writer's header map was empty when
\* the ResponseBuffer was acquired.
C10_ResetThenSameIsSame ==
    ({"reset", "once"} \subseteq DOMAIN wires /\ progs[1] = progs[2]
       /\ resp.header = EmptyHeader) =>
        wires["reset"] = wires["once"]

C10_Witness ==
    /\ {"reset", "once"} \subseteq DOMAIN wires
    /\ resp.header = EmptyHeader
    /\ progs[1] = <<Op("Header", <<"Is-Bar">>), Op("WriteHeader", <<201>>),
                    Op("Write", <<"a">>)>>
    /\ progs[2] = progs[1]
    /\ wires["reset"] = [status |-> 201, header |-> HeaderSet(EmptyHeader, "Is-Bar", "rab"),
                         body |-> <<"a">>]

\* the calls that can latch the header or use the latch
HandlerOps == {"Header", "HeldHeader", "WriteHeader", "Write", "FlushBuffer", "FlushError"}

\* C11: the first WriteHeader, or the first accepted Write, latches the
\* status: until then the status is 200, a WriteHeader made while latched
\* changes nothing, a Write never changes the status, and a flush (of the
\* handler chain, or of ToStd after a nil return) hands the latched status to
\* the host writer, which sends it when it has not sent a status before.
C11_FirstStatusWins ==
    /\ (pc = "serving" /\ ~bresp.headerFlushed) => bresp.status = StatusOK
    /\ (pc = "serving" /\ last.op = "WriteHeader") =>
          IF pre.w.headerFlushed THEN S = pre
          ELSE bresp.status = last.arg[1] /\ bresp.headerFlushed
    /\ (pc = "serving" /\ last.op = "Write") =>
          /\ bresp.status = pre.w.status
          /\ bresp.headerFlushed = (pre.w.headerFlushed \/ last.err = "")
    /\ (pc = "serving" /\ last.op \in FlushOps) =>
          /\ bresp.status = pre.w.status
          /\ bresp.headerFlushed
          /\ resp.numWriteHeader = pre.resp.numWriteHeader + 1
          /\ ~pre.resp.wroteHeader => resp.status = pre.w.status
    /\ (pc = "done" /\ retErr = << >> /\ ~pre.resp.wroteHeader) =>
          resp.status = pre.w.status

C11_Witness ==
    /\ pc = "serving" /\ last.op = "WriteHeader" /\ last.arg = <<202>>
    /\ pre.w.headerFlushed /\ pre.w.status = 201 /\ pre.w.buf # << >>
    /\ bresp.status = 201

\* C12 (as claimed): while the header is latched no call of the handler
\* chain other than Reset changes the recorded status or the host writer's
\* header map, so the header set a flush sends is the map as it was when the
\* header was latched.
C12_Claim ==
    (pc = "serving" /\ pre.w.headerFlushed /\ last.op \in HandlerOps) =>
        /\ bresp.status = pre.w.status
        /\ resp.header = pre.resp.header
        /\ (last.op \in FlushOps /\ ~pre.resp.wroteHeader) =>
              resp.sentHeader = pre.resp.header

RECURSIVE BodyOf(_)
BodyOf(prog) ==
    IF prog = << >> THEN << >>
    ELSE (IF Head(prog).op = "Write" THEN Head(prog).arg ELSE << >>) \o BodyOf(Tail(prog))

\* C14: a program of Header().Set, WriteHeader and Write calls whose body
\* fits the cap gives the client the same status, headers and body on a
\* ResponseBuffer followed by FlushBuffer as on the host's standard writer.
C14_BufferedLikeStd ==
    ({"once", "std"} \subseteq DOMAIN wires
       /\ (bufLimit < 0 \/ Len(BodyOf(progs[1])) <= bufLimit)) =>
        wires["once"] = wires["std"]

C14_Witness ==
    /\ {"once", "std"} \subseteq DOMAIN wires
    /\ bufLimit = 1
    /\ progs[1] = <<Op("Write", <<"a">>), Op("Header", <<"Is-Bar">>),
                    Op("WriteHeader", <<202>>)>>
    /\ wires["std"] = [status |-> 200, header |-> resp.header, body |-> <<"a">>]

\* the middleware of a BareHandler, outermost first
RECURSIVE MwOf(_)
MwOf(h) ==
    IF h = << >> THEN << >>
    ELSE (IF Head(h).kind = "mw" THEN Head(h).arg ELSE << >>) \o MwOf(Tail(h))

\* m1 before, ..., mk before, handler, mk after, ..., m1 after
StackOrder(m) ==
    [i \in 1..Len(m) |-> [ev |-> "before", who |-> m[i]]]
    \o <<[ev |-> "handler", who |-> "h"]>>
    \o [i \in 1..Len(m) |-> [ev |-> "after", who |-> m[Len(m) + 1 - i]]]

\* C15: a request served by a route goes through the middlewares in the
\* order they were given to Use, each before calling next, then the handler,
\* then the middlewares in reverse order after next returns.
C15_StackOrder ==
    mlast.op = "ServeHTTP" => mlast.trace = StackOrder(mux.middlewares.buffered)

C15_Witness ==
    /\ mlast.op = "ServeHTTP" /\ mlast.n = 4
    /\ mux.middlewares.buffered = <<"m2", "m1">>
    /\ mux.routes[mlast.pattern].bare[Len(mux.routes[mlast.pattern].bare)].kind = "handler"
    /\ mlast.trace = <<[ev |-> "before", who |-> "m2"], [ev |-> "before", who |-> "m1"],
                       [ev |-> "handler", who |-> "h"],
                       [ev |-> "after", who |-> "m1"], [ev |-> "after", who |-> "m2"]>>

\* C16: after a call of any registration operation the captured flag is set
\* and Use panics; a Use made when a route is registered panics with the
\* fixed message; a Use that panics changes nothing; a Use made before any
\* registration call succeeds and appends its middleware to the stack.
C16_UseAfterHandlePanics ==
    /\ mlast.op \in RegistrationOps =>
          /\ mux.middlewares.captured
          /\ \A mw \in UseArgs : Use(mux, mw).panic = PanicUse
    /\ mlast.op = "Use" =>
          /\ DOMAIN mlast.pre.routes # {} => mlast.panic = PanicUse
          /\ mlast.panic # NoPanic => (mlast.panic = PanicUse /\ mux = mlast.pre)
          /\ mlast.regs = 0 =>
                /\ mlast.panic = NoPanic
                /\ mux.middlewares.buffered = mlast.pre.middlewares.buffered \o mlast.mw

C16_Witness ==
    /\ mlast.op = "Use" /\ mlast.panic = PanicUse
    /\ DOMAIN mux.routes = {<<"GET", " ", "/", "api">>, <<"GET", " ", "/", "api", "/">>}
    /\ mux.routes[<<"GET", " ", "/", "api">>].bare[Len(mux.middlewares.buffered) + 2].kind = "std"
    /\ mux.middlewares.buffered = <<"m1">>

\* C17: every route registered at m.mux is wrapped with the whole middleware
\* stack of the ServeMux, in its order, whatever calls were made and whether
\* they panicked.
C17_EveryRouteHasTheStack ==
    \A pattern \in DOMAIN mux.routes :
        MwOf(mux.routes[pattern].bare) = mux.middlewares.buffered

C17_Witness ==
    /\ mlast.op = "Mount" /\ mlast.panic = PanicConflict
    /\ DOMAIN mux.routes = {<<"/", "api", "/">>, <<"/", "api">>}
    /\ mux.middlewares.buffered = <<"m1", "m2">>
    /\ mux.routes[<<"/", "api", "/">>].bare[3].kind = "std"

NumWilds(path, i) == Cardinality({j \in 1..i : path[j] \in WildTokens})
NotEnd(tok) == tok # EndToken
\* the path with its i-th placeholder replaced by the i-th value and {$} left out
Filled(path, vals) ==
    SelectSeq([i \in 1..Len(path) |->
                 IF path[i] \in WildTokens THEN vals[NumWilds(path, i)] ELSE path[i]],
              NotEnd)

\* C18: Reverse of a registered name with at least as many values as the
\* pattern has placeholders returns no error and the pattern's path, literal
\* segments as they are, the i-th placeholder replaced by the i-th value, the
\* method left out and a final {$} giving the "/" before it.
C18_ReverseFillsPattern ==
    /\ DOMAIN mlast.src = DOMAIN mux.reverser
    /\ (mlast.op = "Reverse" /\ mlast.name[1] \in DOMAIN mlast.src
          /\ Len(mlast.vals) >= NumWilds(PathOf(mlast.src[mlast.name[1]]),
                                          Len(PathOf(mlast.src[mlast.name[1]])))) =>
          /\ mlast.err = NoErr
          /\ mlast.res = Filled(PathOf(mlast.src[mlast.name[1]]), mlast.vals)

C18_Witness ==
    /\ mlast.op = "Reverse" /\ mlast.name = <<"n1">> /\ mlast.vals = <<"42", "101">>
    /\ "n1" \in DOMAIN mlast.src
    /\ mlast.src["n1"] = <<"GET", " ", "/", "users", "/", "{userId}",
                           "/", "posts", "/", "{postId}">>
    /\ mlast.res = <<"/", "users", "/", "42", "/", "posts", "/", "101">>

\* C19: NamedPattern and Named never change or remove an entry of the
\* registry; with a registered name, or with a pattern that does not parse,
\* NamedPattern returns an error ("already exists" for the name), Named
\* panics, and the registry stays as it was; otherwise the name is added
\* with the parsed pattern.
C19_NamesAreFinal ==
    /\ \A nm \in DOMAIN mlast.pre.reverser :
          nm \in DOMAIN mux.reverser /\ mux.reverser[nm] = mlast.pre.reverser[nm]
    /\ mlast.op \in {"NamedPattern", "Named"} =>
          LET name   == mlast.name[1]
              dup    == name \in DOMAIN mlast.pre.reverser
              bad    == ParsePattern(mlast.pattern).err # NoErr
              failed == IF mlast.op = "Named" THEN mlast.panic # NoPanic
                        ELSE mlast.err # NoErr
          IN  /\ failed = (dup \/ bad)
              /\ failed => mux.reverser = mlast.pre.reverser
              /\ dup => " already exists" \in Range(mlast.err \o mlast.panic)
              /\ ~failed => /\ DOMAIN mux.reverser = DOMAIN mlast.pre.reverser \cup {name}
                             /\ mux.reverser[name] = ParsePattern(mlast.pattern)
              /\ mlast.res = mlast.pattern

C19_Witness ==
    /\ mlast.op = "Named" /\ mlast.name = <<"n1">> /\ mlast.pattern = AltPattern
    /\ mlast.panic = <<"bhttp: ", "pattern with name ", "n1", " already exists">>
    /\ "n1" \in DOMAIN mlast.src
    /\ mlast.src["n1"] = <<"/", "users", "/", "{userId}">>
    /\ mux.reverser["n1"] = ParsePattern(<<"/", "users", "/", "{userId}">>)

\* C20: Reverse of a name that is not registered returns no URL and a "no
\* pattern named" error; Reverse with fewer values than the pattern has
\* placeholders returns no URL and a "not enough values" error; Reverse
\* leaves the registry as it was.
C20_ReverseErrors ==
    mlast.op = "Reverse" =>
        /\ mux.reverser = mlast.pre.reverser
        /\ mlast.name[1] \notin DOMAIN mux.reverser =>
              (mlast.res = << >> /\ mlast.err # NoErr /\ mlast.err[1] = "no pattern named: ")
        /\ (mlast.name[1] \in DOMAIN mux.reverser
              /\ Len(mlast.vals) < Cardinality(WildSegs(mux.reverser[mlast.name[1]]))) =>
              (mlast.res = << >> /\ "not enough values" \in Range(mlast.err))

C20_Witness ==
    /\ mlast.op = "Reverse" /\ mlast.name = <<"n1">> /\ mlast.vals = <<"42">>
    /\ "n1" \in DOMAIN mlast.src
    /\ mlast.src["n1"] = <<"/", "users", "/", "{userId}", "/", "{postId}">>
    /\ mlast.err = <<"failed to build: ", "not enough values">>
    /\ mlast.res = << >>

\* ---------------------------------------------------------------- CodeOf calls
\* The errors given to CodeOf: chains of up to MaxDepth errors, each a
\* wrapper (fmt.Errorf with %w) or a framework *Error around the next, the
\* last a plain error.
CodeOfNodes == {WrapNode} \cup {ErrorNode(c) : c \in {CodeUnknown, CodeBadRequest, CodeNotFound}}
PlainNodes == {PlainNode, [kind |-> "plain", code |-> 0, msg |-> "bar"]}

RECURSIVE CodeOfChains(_)
CodeOfChains(n) ==
    IF n = 1 THEN {<<x>> : x \in PlainNodes}
    ELSE {<<x>> \o c : x \in CodeOfNodes, c \in CodeOfChains(n - 1)}

CodeOfInputs == UNION {CodeOfChains(n) : n \in 1..MaxDepth}

\* a program makes an error
MakeError ==
    /\ retErr = << >> /\ last = NoCall
    /\ retErr' \in CodeOfInputs
    /\ UNCHANGED <<pc, bufLimit, bresp, resp, logs, nops, last, pre, flushes, flushedOK,
                   retHostOK, progs, wires, mux, mlast, pl>>

\* and calls CodeOf(err) with it, or with nil
DoCodeOf ==
    /\ last = NoCall
    /\ last' = Call("CodeOf", << >>, CodeOf(retErr), "", NoPanic)
    /\ UNCHANGED <<pc, bufLimit, bresp, resp, logs, retErr, nops, pre, flushes, flushedOK,
                   retHostOK, progs, wires, mux, mlast, pl>>

NextCodeOf ==
    \/ MakeError
    \/ DoCodeOf

SpecCodeOf == InitMux /\ [][NextCodeOf]_vars

\* ---------------------------------------------------------------- pool calls
\* ToStd, entry, for a new request on r: NewResponseWriter(resp, bufLimit)
PoolAcquire ==
    \E r \in PoolReqs, limit \in PoolLimits :
        /\ pl.reqs[r].pc \in {"idle", "done"}
        /\ pl.rounds < MaxRounds
        /\ \E i \in Gettable(pl) :
              \E q \in {PoolAcquireFor([pl EXCEPT !.reqs[r] = IdleRequest], i, r, limit)} :
                 pl' = [q EXCEPT !.rounds = pl.rounds + 1,
                                 !.reqs[r].pc = "serving", !.reqs[r].held = i,
                                 !.reqs[r].limit = limit,
                                 !.reqs[r].got = q.insts[i].w,
                                 !.reqs[r].gotRef = q.insts[i].ref,
                                 !.reqs[r].prev = q.insts[i].used]
        /\ UNCHANGED <<reqvars, mux, mlast>>

\* the handler chain of request r runs a program on its ResponseBuffer and
\* may flush it, the host writer taking the bytes or failing
PoolServe ==
    \E r \in PoolReqs, prog \in PoolProgs, flush \in {"none", "ok", "fail"} :
        /\ pl.reqs[r].pc = "serving"
        /\ ~pl.reqs[r].served
        /\ \E s \in {Run(prog, PairOf(pl, pl.reqs[r].held))} :
              pl' = [WithPair(pl, pl.reqs[r].held,
                              IF flush = "none" THEN s ELSE FlushBuffer(s, flush = "ok").s)
                       EXCEPT !.reqs[r].served = TRUE]
        /\ UNCHANGED <<reqvars, mux, mlast>>

\* the handler chain of request r returns nil or an error, or panics; ToStd
\* finishes and its deferred call runs; the request and its host writer are
\* over, what is kept of it is how it ended
PoolReturn ==
    \E r \in PoolReqs, how \in {"nil", "error", "panic"}, hostOK \in BOOLEAN :
        /\ pl.reqs[r].pc = "serving"
        /\ \E t \in {ToStdTail(PairOf(pl, pl.reqs[r].held),
                                 IF how = "error" THEN PoolErr ELSE << >>, hostOK)} :
              \E d \in {deferFree(IF how = "panic" THEN pl
                                   ELSE WithPair(pl, pl.reqs[r].held, t.s),
                                   pl.reqs[r].held, how = "panic" \/ t.panic # NoPanic)} :
                 pl' = [d.p EXCEPT
                          !.reqs[r] =
                             [IdleRequest EXCEPT
                                !.pc = "done",
                                !.held = IF d.released = 1 THEN 0 ELSE pl.reqs[r].held,
                                !.releases = pl.reqs[r].releases + d.released,
                                !.exit = IF how = "panic" THEN "panic"
                                         ELSE IF t.panic # NoPanic THEN "adapter panic"
                                         ELSE IF t.implicit # << >> THEN "flush failed"
                                         ELSE how]]
        /\ UNCHANGED <<reqvars, mux, mlast>>

NextPool ==
    \/ PoolAcquire
    \/ PoolServe
    \/ PoolReturn

SpecPool == InitMux /\ [][NextPool]_vars

\* a Reverse of a registered name with the pattern's own placeholder names
RoundTrip ==
    /\ mlast.op = "Reverse" /\ mlast.name[1] \in DOMAIN mux.reverser
    /\ mlast.vals = OwnNames(mux.reverser[mlast.name[1]])

\* C21 as stated: registering a well-formed pattern and reversing it with
\* each placeholder replaced by its own name in braces gives back the
\* pattern string.
C21_Claim ==
    RoundTrip => (mlast.err = NoErr /\ mlast.res = mlast.src[mlast.name[1]])

\* C21 amended: the round trip gives back the path of the pattern string,
\* without its method and without the anchor {$} (whose "/" stays); it gives
\* back the pattern string itself when that has neither a method nor {$}.
C21_RoundTripOfPath ==
    RoundTrip =>
        LET str == mlast.src[mlast.name[1]]
        IN  /\ mlast.err = NoErr
            /\ mlast.res = SelectSeq(PathOf(str), NotEnd)
            /\ (PathOf(str) = str /\ EndToken \notin Range(str)) => mlast.res = str

C21_Witness ==
    /\ RoundTrip
    /\ mlast.vals = <<"{userId}", "{postId}">>
    /\ mlast.src["n1"] = <<"/", "users", "/", "{userId}", "/", "posts", "/", "{postId}">>
    /\ mlast.res = mlast.src["n1"]

MountOps == {"Mount", "MountFunc", "MountBare", "MountStd"}
IsStrip(l) == l.kind = "strip"
IsHandlerEvent(e) == e.ev = "handler"
IsMwEvent(e) == e.ev # "handler"
\* the last request was given to a route that a mount registered
MountServed ==
    /\ mlast.op = "ServeHTTP"
    /\ SelectSeq(mux.routes[mlast.pattern].bare, IsStrip) # << >>
\* the URL of the last request as it arrived
ArrivedURL == NewRequest(mlast.req.method, mlast.req.target).urls[1]
\* the prefix of the mount behind a route: the path of the route's pattern,
\* without the slash that ends the subtree pattern
MountPrefix(pattern) ==
    LET path == PathOf(pattern)
    IN  IF path[Len(path)] = "/" THEN SubSeq(path, 1, Len(path) - 1) ELSE path
\* a path without its first n tokens, "/" when nothing remains
Without(path, n) == IF Len(path) <= n THEN <<"/">> ELSE SubSeq(path, n + 1, Len(path))
\* what the mounted handler saw
HandlerSaw == SelectSeq(mlast.seen, IsHandlerEvent)[1]

\* C22 as stated: the handler of a mount sees the path without the prefix,
\* "/" when nothing remains, and the raw path, when there is one, rewritten
\* the same way (empty when it was empty).
C22_Claim ==
    MountServed =>
        /\ HandlerSaw.path = Without(ArrivedURL.Path, Len(MountPrefix(mlast.pattern)))
        /\ HandlerSaw.raw = IF ArrivedURL.RawPath = << >> THEN << >>
                            ELSE Without(ArrivedURL.RawPath, Len(MountPrefix(mlast.pattern)))

\* C23: every middleware of a mounted route sees the path and the raw path
\* the request arrived with, before it calls next and after next returns;
\* the mounted handler sees the path without the prefix and the context
\* values the middleware added.
C23_ViewsAreIsolated ==
    MountServed =>
        /\ \A i \in 1..Len(mlast.seen) :
              IsMwEvent(mlast.seen[i]) =>
                  /\ mlast.seen[i].path = ArrivedURL.Path
                  /\ mlast.seen[i].raw = ArrivedURL.RawPath
        /\ Len(SelectSeq(mlast.seen, IsMwEvent)) = 2 * Len(mux.middlewares.buffered)
        /\ HandlerSaw.path = Without(ArrivedURL.Path, Len(MountPrefix(mlast.pattern)))
        /\ HandlerSaw.path # ArrivedURL.Path
        /\ "m1" \in Range(mux.middlewares.buffered) => "m1" \in HandlerSaw.ctx

C23_Witness ==
    /\ MountServed
    /\ mlast.req.target = <<"/", "api", "/", "users">>
    /\ mux.middlewares.buffered = <<"m1", "m2">>
    /\ mlast.seen[1] = [ev |-> "before", who |-> "m1", path |-> <<"/", "api", "/", "users">>,
                         raw |-> << >>, ctx |-> {}]
    /\ mlast.seen[3] = [ev |-> "handler", who |-> "h", path |-> <<"/", "users">>,
                         raw |-> << >>, ctx |-> {"m1"}]
    /\ mlast.seen[5] = [ev |-> "after", who |-> "m1", path |-> <<"/", "api", "/", "users">>,
                         raw |-> << >>, ctx |-> {}]

\* C24: after a mount with pattern [METHOD ]/prefix, m.mux has the routes
\* [METHOD ]/prefix and [METHOD ]/prefix/ with one and the same handler;
\* unless another route takes it, a request for /prefix goes to the first
\* and a request for a path under /prefix/ to the second when the method
\* fits, and gets 405 when it does not; a request whose method does not fit
\* never goes to the mount.
C24_ExactAndSubtree ==
    (mlast.op \in MountOps /\ mlast.panic = NoPanic) =>
        LET exact   == mlast.pattern
            subtree == mlast.pattern \o <<"/">>
            prefix  == PathOf(mlast.pattern)
            others  == DOMAIN mux.routes \ {exact, subtree}
            under(path) == Len(path) > Len(prefix) /\ SubSeq(path, 1, Len(prefix) + 1) = subtree
            \* another route matches the path, or the path with a slash added
            taken(rq, path) ==
                \E q \in others : /\ MethodOK(q, rq.method)
                                  /\ (MatchesPath(q, path) \/ MatchesPath(q, path \o <<"/">>))
            goes(rq, path, hit) ==
                /\ ~MethodOK(exact, rq.method) => (hit.status # 0 \/ hit.pattern \in others)
                /\ ~taken(rq, path) =>
                      IF MethodOK(exact, rq.method)
                      THEN hit.status = 0
                           /\ hit.pattern = (IF path = prefix THEN exact ELSE subtree)
                      ELSE hit.status = 405
        IN  /\ {exact, subtree} \subseteq DOMAIN mux.routes
            /\ mux.routes[exact] = mux.routes[subtree]
            /\ PatMethod(exact) = PatMethod(subtree)
            /\ \A rq \in Requests :
                  (UnescapePath(rq.target) = prefix \/ under(UnescapePath(rq.target))) =>
                      goes(rq, UnescapePath(rq.target),
                           HostMuxMatch(mux.routes, rq.method, UnescapePath(rq.target)))

C24_Witness ==
    /\ mlast.op = "MountBare" /\ mlast.panic = NoPanic
    /\ mlast.pattern = <<"GET", " ", "/", "api">>
    /\ DOMAIN mux.routes = {<<"GET", " ", "/", "api">>, <<"GET", " ", "/", "api", "/">>}
    /\ HostMuxMatch(mux.routes, "GET", <<"/", "api">>).pattern = <<"GET", " ", "/", "api">>
    /\ HostMuxMatch(mux.routes, "GET", <<"/", "api", "/", "users">>).pattern
          = <<"GET", " ", "/", "api", "/">>
    /\ HostMuxMatch(mux.routes, "POST", <<"/", "api", "/", "users">>).status = 405

\* the requests being served, and the instances that are out of the pool
InFlight == {r \in PoolReqs : pl.reqs[r].pc = "serving"}
Outstanding == (1..Len(pl.insts)) \ pl.pool

\* C25: when ServeHTTP has returned (by return or by panic) the request's
\* ResponseBuffer was released exactly once and the request holds none; as
\* many instances are out of the pool as requests are being served, so none
\* when no request is.
C25_ReleasedOnEveryExit ==
    /\ \A r \in PoolReqs :
          pl.reqs[r].pc = "done" => (pl.reqs[r].releases = 1 /\ pl.reqs[r].held = 0)
    /\ Cardinality(Outstanding) = Cardinality(InFlight)
    /\ InFlight = {} => Outstanding = {}

C25_Witness ==
    /\ pl.reqs[1].pc = "done" /\ pl.reqs[1].exit = "adapter panic"
    /\ pl.reqs[2].pc = "done" /\ pl.reqs[2].exit = "panic"
    /\ pl.rounds = 3
    /\ Len(pl.insts) = 2 /\ pl.pool = {1, 2}

\* C26: the instance a request is handed has status 200, no latched header,
\* no flushed body, an empty buffer, no side header map, the cap of the
\* request, and points to the host writer of the request, whatever state
\* it was in when it was released before.
C26_NoLeakThroughPool ==
    \A r \in InFlight :
        /\ pl.reqs[r].got = [bound |-> TRUE, buf |-> << >>, limit |-> pl.reqs[r].limit,
                             status |-> StatusOK, headerFlushed |-> FALSE,
                             bodyFlushed |-> FALSE, unflushableHeader |-> NilHeader]
        /\ pl.reqs[r].gotRef = r

C26_Witness ==
    /\ pl.reqs[2].pc = "serving" /\ pl.reqs[2].prev /\ pl.reqs[2].held = 1
    /\ pl.reqs[2].limit = 1
    /\ pl.reqs[1].pc = "done" /\ pl.reqs[1].exit = "flush failed"
    /\ pl.reqs[2].got.status = StatusOK /\ pl.reqs[2].got.unflushableHeader = NilHeader

\* C27: two requests being served never hold the same instance; the
\* instance a request holds is not in the pool, where another request could
\* get it, and points to the host writer of that request, so only that
\* request uses it.
C27_OneHolderAtATime ==
    /\ \A r1, r2 \in InFlight : r1 # r2 => pl.reqs[r1].held # pl.reqs[r2].held
    /\ \A r \in InFlight :
          /\ pl.reqs[r].held \in 1..Len(pl.insts)
          /\ pl.reqs[r].held \notin pl.pool
          /\ pl.insts[pl.reqs[r].held].ref = r

C27_Witness ==
    /\ InFlight = {1, 2}
    /\ pl.rounds = 3
    /\ pl.reqs[1].held = 2 /\ pl.reqs[2].held = 1
    /\ pl.reqs[2].prev
    /\ pl.reqs[1].served /\ pl.reqs[2].served

\* the framework *Errors of a chain that are reached through wrappers only
FirstError(err) ==
    {i \in 1..Len(err) : err[i].kind = "Error" /\ \A j \in 1..(i - 1) : err[j].kind = "wrap"}

\* C28: CodeOf(err) is the code of the first framework *Error of the chain,
\* whatever wraps it and whatever its cause holds, and CodeUnknown when the
\* chain has no framework *Error.
C28_CodeOfFirstError ==
    last.op = "CodeOf" =>
        /\ (\A i \in 1..Len(retErr) : retErr[i].kind # "Error") => last.n = CodeUnknown
        /\ (\E i \in 1..Len(retErr) : retErr[i].kind = "Error") => FirstError(retErr) # {}
        /\ \A i \in FirstError(retErr) : last.n = retErr[i].code

C28_Witness ==
    /\ last.op = "CodeOf"
    /\ retErr = <<WrapNode, ErrorNode(CodeBadRequest), ErrorNode(CodeNotFound), PlainNode>>
    /\ last.n = CodeBadRequest

Received == resp.body
Buffered == bresp.buf
C30_BytesInProgramOrder ==
    /\ (last.op = "Write" /\ last.err = "") =>
          (Received = pre.resp.body /\ Buffered = pre.w.buf \o last.arg)
    /\ (last.op = "Write" /\ last.err # "") =>
          (Received = pre.resp.body /\ Buffered = pre.w.buf)
    /\ last.op \in {"FlushBuffer", "FlushError"} =>
          /\ Received \o Buffered = pre.resp.body \o pre.w.buf
          /\ Buffered \in {<< >>, pre.w.buf}
          /\ last.err = "" => Buffered = << >>
    /\ last.op = "Reset" =>
          /\ Received = pre.resp.body
          /\ Buffered = IF last.panic = NoPanic THEN << >> ELSE pre.w.buf
    /\ last.op \in {"Header", "HeldHeader", "WriteHeader"} =>
          (Received = pre.resp.body /\ Buffered = pre.w.buf)
    /\ (last.op = "Return" /\ retErr = << >>) =>
          Received = pre.resp.body \o (IF retHostOK THEN pre.w.buf ELSE << >>)

\* Write "a", flush, Write "b" "c", flush: the host writer has "a" "b" "c"
C30_Witness ==
    /\ last.op = "FlushBuffer"
    /\ flushes = 2
    /\ pre.resp.body = <<"a">>
    /\ pre.w.buf = <<"b", "c">>
    /\ Received = <<"a", "b", "c">>
    /\ Buffered = << >>

\* C31 (as claimed): after the handler returns, with or without an error,
\* ToStd calls FlushBuffer exactly once and ServeHTTP returns normally;
\* LogImplicitFlushError is called once with the failure when that flush
\* fails and not at all when it succeeds.
C31_Claim ==
    last.op = "Return" =>
        /\ pc = "done"
        /\ last.n = 1
        /\ logs.implicit = IF last.err # "" THEN <<last.err>> ELSE << >>
        /\ last.err # "" <=> (~retHostOK /\ retErr = << >> /\ pre.w.buf # << >>)

\* C32: FlushError performs FlushBuffer first (the status goes to the host
\* writer, then the buffered bytes) and then asks the host writer to flush.
\* When the host writer refuses the bytes, that error is returned and the
\* host writer is not flushed; when it takes them, the host writer is flushed
\* and an error of that flush is returned; without either error FlushError
\* returns nil.
HostRefusedBytes ==
    /\ resp.numWrite = pre.resp.numWrite + 1
    /\ resp.body = pre.resp.body
    /\ pre.w.buf # << >>
C32_FlushErrorSteps ==
    last.op = "FlushError" =>
        /\ resp.numWriteHeader = pre.resp.numWriteHeader + 1
        /\ last.err \in {"", WriteFail, FlushFail}
        /\ last.err = WriteFail <=> HostRefusedBytes
        /\ last.err = WriteFail =>
              (resp.numFlush = pre.resp.numFlush /\ bresp.bodyFlushed = pre.w.bodyFlushed)
        /\ last.err = FlushFail =>
              /\ resp.body = pre.resp.body \o pre.w.buf
              /\ bresp.bodyFlushed
              /\ resp.numFlush = pre.resp.numFlush
        /\ last.err = "" =>
              /\ resp.body = pre.resp.body \o pre.w.buf
              /\ bresp.bodyFlushed
              /\ resp.numFlush = pre.resp.numFlush + 1

\* "a" is buffered and the host writer refuses it: no flush of the host writer
C32_Witness ==
    /\ last.op = "FlushError"
    /\ last.err = WriteFail
    /\ pre.w.buf = <<"a">>
    /\ bresp.buf = <<"a">>
    /\ resp.numFlush = 0

\* errors.Is(err, context.DeadlineExceeded): reached through Unwrap
IsDeadlineExceeded(err) ==
    \E i \in 1..Len(err) : err[i] = DeadlineNode /\ \A j \in 1..(i - 1) : err[j].kind = "wrap"

\* C33 (as claimed): an error that is or wraps context.DeadlineExceeded and
\* carries no framework code is answered with 504 "Gateway Timeout\n",
\* nothing the handler composed reaches the client, and
\* LogUnhandledServeError is not called.
C33_Claim ==
    (Returned /\ IsDeadlineExceeded(retErr) /\ ~asError(retErr).ok
       /\ flushes = 0 /\ retHostOK) =>
        /\ resp.status = StatusGatewayTimeout
        /\ resp.body = <<StatusText(StatusGatewayTimeout), "\n">>
        /\ NothingComposed(resp)
        /\ logs.unhandled = << >>

\* C34 (as claimed): the captured flag is true exactly when at least one
\* route is registered at the underlying router, so that a Use after
\* registration attempts that all failed does not panic.
C34_Claim ==
    /\ mux.middlewares.captured <=> DOMAIN mux.routes # {}
    /\ (mlast.op = "Use" /\ DOMAIN mlast.pre.routes = {}) => mlast.panic = NoPanic

\* C35: the cap bounds the bytes held in the buffer, not what the request
\* wrote before. After every Reset that returns and after every flush that
\* delivered the buffer, nothing is buffered and a Write of up to cap bytes
\* is accepted whole, whatever was written, reset and flushed before; and
\* every Write made on an empty buffer with at most cap bytes was accepted.
FitsCap(p) == bresp.limit < 0 \/ Len(p) <= bresp.limit
Emptied ==
    \/ last.op = "Reset" /\ last.panic = NoPanic
    \/ last.op = "FlushBuffer" /\ last.err = ""
    \/ last.op = "FlushError" /\ last.err \in {"", FlushFail}
C35_CapIsOnHeldBytes ==
    /\ (pc = "serving" /\ Emptied) =>
          /\ Len(bresp.buf) = 0
          /\ \A p \in WriteInputs :
                FitsCap(p) => (Write(S, p).err = "" /\ Write(S, p).n = Len(p)
                               /\ Write(S, p).s.w.buf = p)
    /\ (last.op = "Write" /\ pre.w.buf = << >> /\ FitsCap(last.arg)) =>
          (last.err = "" /\ bresp.buf = last.arg)

\* cap 2: "b" "c" written and flushed, written again and flushed again
C35_Witness ==
    /\ pc = "serving"
    /\ bresp.limit = 2
    /\ last.op = "FlushBuffer" /\ last.err = ""
    /\ flushes = 2
    /\ resp.body = <<"b", "c", "b", "c">>
    /\ Write(S, <<"b", "c">>).err = ""

\* C36 (as claimed): every name the reverser knows is the name of a pattern
\* registered at the underlying router, and a Handle or HandleFunc call that
\* panics leaves the reverser as it was.
C36_Claim ==
    /\ \A n \in DOMAIN mux.reverser :
          \E p \in DOMAIN mux.routes : ParsePattern(p) = mux.reverser[n]
    /\ (mlast.op \in {"Handle", "HandleFunc"} /\ mlast.panic # NoPanic) =>
          mux.reverser = mlast.pre.reverser

\* C37 (as claimed): a Reset that returns leaves the host writer's header
\* map without any key, whether a key was set through the buffered writer or
\* was on the host writer before the buffered writer was acquired.
C37_Claim ==
    (last.op = "Reset" /\ last.panic = NoPanic) => DOMAIN resp.header = {}

\* C38: a Write refused with ErrBufferFull returns 0 and changes nothing of
\* the ResponseBuffer or the host writer; when the header was not latched
\* before it, it is not latched after it: a following WriteHeader(code) sets
\* the status to code and a following Header().Set goes to the host writer's
\* map.
C38_RejectedWriteChangesNothing ==
    (last.op = "Write" /\ last.err = ErrBufferFull) =>
        /\ last.n = 0
        /\ bresp = pre.w
        /\ resp = pre.resp
        /\ ~pre.w.headerFlushed =>
              /\ \A c \in HandlerStatus : WriteHeader(S, c).w.status = c
              /\ \A k \in DOMAIN HandlerHeader :
                    HeaderSetOn(S, k, HandlerHeader[k]).resp.header
                        = HeaderSet(resp.header, k, HandlerHeader[k])

\* cap 1, nothing written yet: Write "b" "c" is refused, the header is open
C38_Witness ==
    /\ last.op = "Write" /\ last.err = ErrBufferFull
    /\ last.arg = <<"b", "c">>
    /\ bresp.limit = 1
    /\ ~bresp.headerFlushed
    /\ bresp.buf = << >>
    /\ WriteHeader(S, 201).w.status = 201

\* C39: bodyFlushed is set only by a flush that wrote the status and the
\* whole buffer to the host writer. A flush in which the host writer's Write
\* fails returns that error, leaves bodyFlushed as it was and the header
\* latched, although the status is on the host writer; when no flush
\* delivered before, a Reset after it does not panic.
C39_FlushedOnlyOnSuccess ==
    /\ (pc = "serving" /\ bresp.bodyFlushed /\ ~pre.w.bodyFlushed) =>
          /\ last.op \in FlushOps
          /\ last.err # WriteFail
          /\ resp.wroteHeader
          /\ resp.body = pre.resp.body \o pre.w.buf
    /\ (last.op \in FlushOps /\ last.err = WriteFail) =>
          /\ bresp.bodyFlushed = pre.w.bodyFlushed
          /\ bresp.headerFlushed
          /\ resp.wroteHeader
          /\ ~bresp.bodyFlushed => Reset(S).panic = NoPanic
    /\ (last.op = "Reset" /\ ~pre.w.bodyFlushed) => last.panic = NoPanic

\* Reset right after a flush that failed: the status is on the host writer
C39_Witness ==
    /\ last.op = "Reset" /\ last.panic = NoPanic
    /\ pre.resp.wroteHeader
    /\ pre.resp.numWrite = 1
    /\ pre.resp.body = << >>
    /\ pre.w.buf = <<"a">>
    /\ ~pre.w.bodyFlushed
    /\ bresp.buf = << >>

\* the response ToStd gives for err when the handler did nothing and the
\* buffer has no cap
UncappedErrorResponse(err) ==
    Wire(ToStdTail(Fresh(EmptyHeader, -1), err, TRUE).s.resp)

====
